---- MODULE Spec2Model ----
(***************************************************************************)
(* Model of the concurrent search dispatcher of Research_assistant_v1.py   *)
(* (search_api and its nested _worker) and of the record deduplication     *)
(* that follows it (deduplicate_papers and _merge_paper_group).            *)
(*                                                                         *)
(* Time is a discrete clock `now`, counted in ticks from the moment        *)
(* start_time is read (line 4841): `now` is time.time() - start_time.      *)
(* The poll interval of wait(..., timeout=1.0) is PollInterval ticks, so   *)
(* one tick is 1/PollInterval of a second.  Steps of the dispatcher        *)
(* thread and the hand-over of a queued work item to a free pool thread    *)
(* take no time; a provider call takes at least `latency` ticks and may    *)
(* take arbitrarily long.                                                  *)
(***************************************************************************)
EXTENDS Integers, Sequences, FiniteSets, Bags, TLC

VARIABLES
    query_groups,     \* argument: the dict section -> query list, in insertion order
    limit,            \* argument: requested results per query
    timeout_seconds,  \* argument: the deadline, in ticks
    progress_callback,\* argument: TRUE iff a callback was passed
    elsevier_api_key, \* argument: TRUE iff a fallback credential is configured
    cancel_futures,   \* TRUE iff the interpreter's shutdown() accepts cancel_futures
    latency,          \* environment: least number of ticks one provider call takes
    provider,         \* environment: how sch.search_paper behaves (see Answers)
    now,              \* elapsed ticks since start_time
    pc,               \* position of the dispatcher thread
    status,           \* status[t]: state of the future of task t
    started_at,       \* started_at[t]: tick at which a pool thread began task t
    late,             \* late[t]: TRUE iff task t finished with elapsed > timeout_seconds
    calls,            \* calls[t]: number of sch.search_paper invocations for task t
    response,         \* response[t]: what sch.search_paper did for task t
    pending,          \* the dispatcher's set of futures not yet collected
    wait_deadline,    \* tick at which the current wait() call times out
    completed,        \* the dispatcher's completion counter
    timed_out,        \* the dispatcher's timeout flag
    found,            \* accumulated list of records with a PDF
    missing,          \* accumulated list of records without a PDF
    progress,         \* the calls made to progress_callback: <<completed, total>>
    papers,           \* deduplicate_papers: the argument, a list of raw records
    fuzzy_threshold,  \* deduplicate_papers: the argument, in hundredths
    dedup_pc,         \* deduplicate_papers: position ("idle" outside a call)
    paper_no,         \* deduplicate_papers: number of papers the main loop has taken
    groups,           \* deduplicate_papers: the cluster list
    doi_map,          \* deduplicate_papers: index doi_norm -> cluster
    ext_map,          \* deduplicate_papers: index external id -> cluster
    tya_map,          \* deduplicate_papers: index "title|year|author" -> cluster
    title_map,        \* deduplicate_papers: index title_norm -> cluster
    pdf_map,          \* deduplicate_papers: index normalised PDF URL -> cluster
    fuzzy_warnings,   \* deduplicate_papers: the low-confidence fuzzy matches
    merged,           \* deduplicate_papers: the returned list of canonical records
    stats             \* deduplicate_papers: the returned statistics

\* The state of search_api and the state of deduplicate_papers.
search == <<query_groups, limit, timeout_seconds, progress_callback, elsevier_api_key,
            cancel_futures, latency, provider, now, pc, status, started_at, late, calls,
            response, pending, wait_deadline, completed, timed_out, found, missing, progress>>

dedup == <<papers, fuzzy_threshold, dedup_pc, paper_no, groups, doi_map, ext_map, tya_map,
           title_map, pdf_map, fuzzy_warnings, merged, stats>>

vars == <<search, dedup>>

inputs == <<query_groups, limit, timeout_seconds, progress_callback, elsevier_api_key,
            cancel_futures, latency, provider>>

----------------------------------------------------------------------------
(* Bounds of the model and constants of the program.                       *)

MaxTime == 6          \* the clock stops after this many ticks
MaxTimeout == 3       \* largest deadline tried, in ticks
MaxLatency == 4       \* largest least-latency tried, in ticks
TicksPerSecond == 2   \* resolution of the clock
MaxItems == 2         \* most items in one provider response
max_workers == 5      \* ThreadPoolExecutor(max_workers=5)

\* wait(pending, timeout=1.0, ...): the poll interval, in ticks.
PollInterval == 1 * TicksPerSecond

NoValue == "null"     \* Python's None

----------------------------------------------------------------------------
(* Pure helpers.                                                           *)

Max(a, b) == IF a >= b THEN a ELSE b

RECURSIVE ConcatAll(_)
ConcatAll(ss) == IF ss = <<>> THEN <<>> ELSE Head(ss) \o ConcatAll(Tail(ss))

\* All orders in which the elements of a finite set can be iterated.
RECURSIVE Orders(_)
Orders(S) ==
    IF S = {} THEN {<<>>}
    ELSE UNION {{<<x>> \o o : o \in Orders(S \ {x})} : x \in S}

\* The multiset of the elements of a sequence.
RECURSIVE BagOf(_)
BagOf(s) == IF s = <<>> THEN EmptyBag ELSE SetToBag({Head(s)}) (+) BagOf(Tail(s))

----------------------------------------------------------------------------
(* search_api, lines 4709-4724: the flat task list.                        *)

\* The (section, query) pairs of one section; an empty query list is skipped.
SectionTasks(entry) == [i \in 1..Len(entry[2]) |-> <<entry[1], entry[2][i]>>]

tasks == ConcatAll([g \in 1..Len(query_groups) |-> SectionTasks(query_groups[g])])

total == Len(tasks)

TaskIds == 1..total

\* Mutant of per_query_limit: the limit is clamped at 0 instead of 1.
per_query_limitFromZero == Max(0, limit)

per_query_limit == Max(1, limit)

----------------------------------------------------------------------------
(* _worker, lines 4730-4837.                                               *)
(* A provider response is what sch.search_paper does for one query:        *)
(*   fail = "call": the call itself raises;                                *)
(*   fail = "iter": the result iterator raises after yielding fail_pos     *)
(*                  items;                                                 *)
(*   fail = "none": the iterator yields all items.                         *)
(* An item says what the mapping of one native paper meets:                *)
(*   bad: the mapping raises; pdf: openAccessPdf carries a URL;            *)
(*   doi: a DOI is present; probe: fetch_elsevier_pdf_url finds the PDF.   *)

Item(bad, pdf, doi, probe) == [bad |-> bad, pdf |-> pdf, doi |-> doi, probe |-> probe]

\* Number of items the iterator yields before it ends or raises.
Yielded(resp) ==
    IF resp.fail = "call" THEN 0
    ELSE IF resp.fail = "iter" THEN resp.fail_pos
    ELSE Len(resp.items)

\* The p_data built for item number i of task t (lines 4784-4830) as a one-element
\* list, or the empty list when the mapping raised and the item was skipped
\* (lines 4831-4832).
MapItem(t, i, item, key) ==
    LET base == [paper_id |-> <<t, i>>, query |-> tasks[t][2], section |-> tasks[t][1],
                 doi |-> IF item.doi THEN "doi" ELSE NoValue]
    IN  IF item.bad THEN <<>>
        ELSE IF item.pdf
             THEN <<base @@ [pdf_url |-> "openAccessPdf", pdf_source |-> "OpenAlex"]>>
        ELSE IF item.doi /\ key /\ item.probe
             THEN <<base @@ [pdf_url |-> "elsevier", pdf_source |-> "Elsevier"]>>
        ELSE <<base @@ [pdf_url |-> NoValue, pdf_source |-> "None"]>>

\* Mutant of WorkerLoop: only a record with an open-access PDF goes to local_found.
RECURSIVE WorkerLoopPrimaryOnly(_, _, _, _)
WorkerLoopPrimaryOnly(t, items, n, key) ==
    IF n = 0 THEN <<<<>>, <<>>>>
    ELSE LET prev == WorkerLoopPrimaryOnly(t, items, n - 1, key)
             p    == MapItem(t, n, items[n], key)
         IN  IF p = <<>> THEN prev
             ELSE IF p[1].pdf_source = "OpenAlex"
                  THEN <<prev[1] \o p, prev[2]>>
             ELSE <<prev[1], prev[2] \o p>>

\* Mutant of WorkerLoop: an item whose mapping raises ends the loop.
RECURSIVE WorkerLoopStopAtBad(_, _, _, _)
WorkerLoopStopAtBad(t, items, n, key) ==
    IF n = 0 THEN <<<<>>, <<>>>>
    ELSE LET prev == WorkerLoopStopAtBad(t, items, n - 1, key)
             p    == MapItem(t, n, items[n], key)
         IN  IF \E i \in 1..n : items[i].bad THEN prev
             ELSE IF p[1].pdf_source \in {"OpenAlex", "Elsevier"}
                  THEN <<prev[1] \o p, prev[2]>>
             ELSE <<prev[1], prev[2] \o p>>

\* The loop of lines 4741-4832 over the first n items: <<local_found, local_missing>>.
RECURSIVE WorkerLoop(_, _, _, _)
WorkerLoop(t, items, n, key) ==
    IF n = 0 THEN <<<<>>, <<>>>>
    ELSE LET prev == WorkerLoop(t, items, n - 1, key)
             p    == MapItem(t, n, items[n], key)
         IN  IF p = <<>> THEN prev
             ELSE IF p[1].pdf_source \in {"OpenAlex", "Elsevier"}
                  THEN <<prev[1] \o p, prev[2]>>
             ELSE <<prev[1], prev[2] \o p>>

\* Mutant of _worker: a failed search discards what the task had mapped so far.
_workerDropOnFailure(t, resp, lim, key) ==
    IF resp.fail # "none" THEN <<<<>>, <<>>>>
    ELSE WorkerLoop(t, resp.items, IF Len(resp.items) <= lim THEN Len(resp.items) ELSE lim, key)

\* _worker: the loop stops at the per-query limit (lines 4742-4744), at the end of
\* the results, or when the iterator raises (lines 4833-4835); whatever was
\* appended before is returned (line 4837).
_worker(t, resp, lim, key) ==
    LET n == IF Yielded(resp) <= lim THEN Yielded(resp) ELSE lim
    IN  WorkerLoop(t, resp.items, n, key)

\* The call itself raises: also the placeholder for a task that has not finished.
NoResponse == [fail |-> "call", fail_pos |-> 0, items |-> <<>>]

\* One record with an open-access PDF.
PlainResponse == [fail |-> "none", fail_pos |-> 0, items |-> <<Item(FALSE, TRUE, FALSE, FALSE)>>]

\* The provider responses tried by the dispatcher model.
Responses ==
    { NoResponse,
      PlainResponse,
      [fail |-> "iter", fail_pos |-> 1,
       items |-> <<Item(FALSE, FALSE, TRUE, FALSE), Item(FALSE, TRUE, TRUE, FALSE)>>] }

\* What sch.search_paper(q, ...) may do (line 4738): a provider of kind "any" gives
\* any of Responses to any query, one of kind "down" fails every call, and one of
\* kind "fixed" gives provider.first to query "q1" and PlainResponse to the others.
Answers(q) ==
    IF provider.kind = "any" THEN Responses
    ELSE IF provider.kind = "down" THEN {NoResponse}
    ELSE IF q = "q1" THEN {provider.first}
    ELSE {PlainResponse}

\* The value of future.result() for a done task t (line 4871).
Result(t) == _worker(t, response[t], per_query_limit, elsevier_api_key)

----------------------------------------------------------------------------
(* The thread pool.                                                        *)

Running == {t \in TaskIds : status[t] = "running"}
Queued  == {t \in TaskIds : status[t] = "queued"}
Done    == {t \in TaskIds : status[t] = "done"}
\* The futures the dispatcher has taken out of `pending` (line 4857).
Collected == IF pc \in {"entry", "submit"} THEN {} ELSE TaskIds \ pending

\* The work queue is FIFO: the next item a free thread takes is the oldest one.
NextQueued == CHOOSE t \in Queued : \A u \in Queued : t <= u

\* Mutant of CanStart: the pool starts a thread per work item, without a width.
CanStartUnbounded == Queued # {}

CanStart == Queued # {} /\ Cardinality(Running) < max_workers

\* Mutant of StartTask: a task whose search failed is run again.
StartTaskRetry ==
    /\ \/ /\ CanStart
          /\ status' = [status EXCEPT ![NextQueued] = "running"]
          /\ started_at' = [started_at EXCEPT ![NextQueued] = now]
          /\ calls' = [calls EXCEPT ![NextQueued] = @ + 1]
       \/ \E t \in Done \cap pending :
             /\ response[t].fail # "none"
             /\ calls[t] < 2
             /\ status' = [status EXCEPT ![t] = "running"]
             /\ started_at' = [started_at EXCEPT ![t] = now]
             /\ calls' = [calls EXCEPT ![t] = @ + 1]
    /\ UNCHANGED <<dedup, inputs, now, pc, late, response, pending, wait_deadline, completed,
                   timed_out, found, missing, progress>>

\* A pool thread takes the next work item and calls _worker (line 4738).
StartTask ==
    /\ CanStart
    /\ LET t == NextQueued
       IN  /\ status' = [status EXCEPT ![t] = "running"]
           /\ started_at' = [started_at EXCEPT ![t] = now]
           /\ calls' = [calls EXCEPT ![t] = @ + 1]
    /\ UNCHANGED <<dedup, inputs, now, pc, late, response, pending, wait_deadline, completed,
                   timed_out, found, missing, progress>>

\* Mutant of TaskComplete: the worker appends to the dispatcher's lists itself.
TaskCompleteShared(t) ==
    /\ status[t] = "running"
    /\ now - started_at[t] >= latency
    /\ \E resp \in Answers(tasks[t][2]) :
          /\ response' = [response EXCEPT ![t] = resp]
          /\ found' = found \o _worker(t, resp, per_query_limit, elsevier_api_key)[1]
          /\ missing' = missing \o _worker(t, resp, per_query_limit, elsevier_api_key)[2]
    /\ status' = [status EXCEPT ![t] = "done"]
    /\ late' = [late EXCEPT ![t] = now > timeout_seconds]
    /\ UNCHANGED <<dedup, inputs, now, pc, started_at, calls, pending, wait_deadline, completed,
                   timed_out, progress>>

\* _worker returns (line 4837) and the future becomes done.
TaskComplete(t) ==
    /\ status[t] = "running"
    /\ now - started_at[t] >= latency
    /\ \E resp \in Answers(tasks[t][2]) : response' = [response EXCEPT ![t] = resp]
    /\ status' = [status EXCEPT ![t] = "done"]
    /\ late' = [late EXCEPT ![t] = now > timeout_seconds]
    /\ UNCHANGED <<dedup, inputs, now, pc, started_at, calls, pending, wait_deadline, completed,
                   timed_out, found, missing, progress>>

----------------------------------------------------------------------------
(* The dispatcher thread: search_api, lines 4704-4895.                     *)

\* Lines 4704-4724 and 4839-4844: nothing to do for an empty query_groups.
Begin ==
    /\ pc = "entry"
    /\ pc' = IF query_groups = <<>> THEN "returned" ELSE "submit"
    /\ UNCHANGED <<dedup, inputs, now, status, started_at, late, calls, response, pending,
                   wait_deadline, completed, timed_out, found, missing, progress>>

Unsubmitted == {t \in TaskIds : status[t] = "new"}

\* Line 4846: executor.submit for the next task of the list.
Submit ==
    /\ pc = "submit"
    /\ Unsubmitted # {}
    /\ LET t == CHOOSE u \in Unsubmitted : \A v \in Unsubmitted : u <= v
       IN  status' = [status EXCEPT ![t] = "queued"]
    /\ UNCHANGED <<dedup, inputs, now, pc, started_at, late, calls, response, pending,
                   wait_deadline, completed, timed_out, found, missing, progress>>

\* Line 4847: pending = set(future_to_task.keys()).
Submitted ==
    /\ pc = "submit"
    /\ Unsubmitted = {}
    /\ pending' = TaskIds
    /\ pc' = "check"
    /\ UNCHANGED <<dedup, inputs, now, status, started_at, late, calls, response,
                   wait_deadline, completed, timed_out, found, missing, progress>>

\* Lines 4849-4854: the loop condition and the deadline check.
Check ==
    /\ pc = "check"
    /\ IF pending = {}
       THEN /\ pc' = "shutdown"
            /\ UNCHANGED <<timed_out, wait_deadline>>
       ELSE IF now > timeout_seconds
       THEN /\ timed_out' = TRUE
            /\ pc' = "shutdown"
            /\ UNCHANGED wait_deadline
       ELSE /\ pc' = "wait"
            /\ wait_deadline' = now + PollInterval
            /\ UNCHANGED timed_out
    /\ UNCHANGED <<dedup, inputs, now, status, started_at, late, calls, response, pending,
                   completed, found, missing, progress>>

\* Mutant of Processed: no progress report for a task that brought no record.
RECURSIVE ProcessedSkipFailed(_, _)
ProcessedSkipFailed(order, acc) ==
    IF order = <<>> THEN acc
    ELSE LET t == Head(order)
             c == acc.completed + 1
         IN  ProcessedSkipFailed(Tail(order),
                 [completed |-> c,
                  progress  |-> IF progress_callback /\ Result(t) # <<<<>>, <<>>>>
                                THEN Append(acc.progress, <<c, total>>)
                                ELSE acc.progress,
                  found     |-> acc.found \o Result(t)[1],
                  missing   |-> acc.missing \o Result(t)[2]])

\* Mutant of Processed: only the first future of `done` is merged.
ProcessedFirstOnly(order, acc) ==
    IF order = <<>> THEN acc
    ELSE [completed |-> acc.completed + Len(order),
          progress  |-> acc.progress \o
                        [i \in 1..Len(order) |-> <<acc.completed + i, total>>],
          found     |-> acc.found \o Result(Head(order))[1],
          missing   |-> acc.missing \o Result(Head(order))[2]]

\* Lines 4865-4876 for the futures of `order`, one after the other.
RECURSIVE Processed(_, _)
Processed(order, acc) ==
    IF order = <<>> THEN acc
    ELSE LET t == Head(order)
             c == acc.completed + 1
         IN  Processed(Tail(order),
                 [completed |-> c,
                  progress  |-> IF progress_callback
                                THEN Append(acc.progress, <<c, total>>)
                                ELSE acc.progress,
                  found     |-> acc.found \o Result(t)[1],
                  missing   |-> acc.missing \o Result(t)[2]])

\* Mutant of WaitOver: wait(pending) without a timeout.
WaitOverBlocking == pending \cap Done # {}

\* Line 4857: wait(pending, timeout=1.0, return_when=FIRST_COMPLETED) is over.
WaitOver == (pending \cap Done # {}) \/ now >= wait_deadline

\* Lines 4857-4876: wait() returns as soon as a pending future is done, or when its
\* timeout expires; the done futures are then processed in the iteration order of
\* the set `done`.
WaitReturn ==
    /\ pc = "wait"
    /\ WaitOver
    /\ LET done == pending \cap Done
       IN  /\ pending' = pending \ done
           /\ \E order \in Orders(done) :
                 LET r == Processed(order, [completed |-> completed, progress |-> progress,
                                            found |-> found, missing |-> missing])
                 IN  /\ completed' = r.completed
                     /\ progress' = r.progress
                     /\ found' = r.found
                     /\ missing' = r.missing
    /\ pc' = "check"
    /\ UNCHANGED <<dedup, inputs, now, status, started_at, late, calls, response, wait_deadline,
                   timed_out>>

\* Mutant of Shutdown: the work items still in the queue are never cancelled.
ShutdownNoCancel ==
    /\ pc = "shutdown"
    /\ pc' = "returned"
    /\ UNCHANGED <<dedup, inputs, now, status, started_at, late, calls, response, pending,
                   wait_deadline, completed, timed_out, found, missing, progress>>

\* Lines 4877-4895: shutdown(wait=False, cancel_futures=True) cancels the work items
\* still in the queue; an interpreter without cancel_futures leaves them queued.
\* search_api then returns found and missing.
Shutdown ==
    /\ pc = "shutdown"
    /\ status' = [t \in TaskIds |->
                    IF cancel_futures /\ status[t] = "queued" THEN "cancelled" ELSE status[t]]
    /\ pc' = "returned"
    /\ UNCHANGED <<dedup, inputs, now, started_at, late, calls, response, pending, wait_deadline,
                   completed, timed_out, found, missing, progress>>

\* The clock advances when no thread has an immediate step to take; it is not
\* followed any further once search_api has returned and no provider call is open.
DispatcherBusy ==
    \/ pc \in {"entry", "submit", "check", "shutdown"}
    \/ pc = "wait" /\ WaitOver

Tick ==
    /\ now < MaxTime
    /\ pc # "returned" \/ Running # {}
    /\ ~DispatcherBusy
    /\ ~CanStart
    /\ now' = now + 1
    /\ UNCHANGED <<dedup, inputs, pc, status, started_at, late, calls, response, pending,
                   wait_deadline, completed, timed_out, found, missing, progress>>

----------------------------------------------------------------------------
(* Specifications.                                                         *)

QueryGroupChoices ==
    { <<>>,
      << <<"s1", <<>>>> >>,
      << <<"s1", <<"q1">>>> >>,
      << <<"s1", <<"q1", "q2">>>>, <<"s2", <<>>>> >>,
      << <<"s1", <<"q1">>>>, <<"s2", <<"q1", "q2">>>> >> }

\* Outside a call of deduplicate_papers.
NoDedup ==
    /\ papers = <<>>
    /\ fuzzy_threshold = 95
    /\ dedup_pc = "idle"
    /\ paper_no = 0
    /\ groups = <<>>
    /\ doi_map = <<>>
    /\ ext_map = <<>>
    /\ tya_map = <<>>
    /\ title_map = <<>>
    /\ pdf_map = <<>>
    /\ fuzzy_warnings = <<>>
    /\ merged = <<>>
    /\ stats = <<>>

InitState ==
    /\ now = 0
    /\ pc = "entry"
    /\ status = [t \in TaskIds |-> "new"]
    /\ started_at = [t \in TaskIds |-> 0]
    /\ late = [t \in TaskIds |-> FALSE]
    /\ calls = [t \in TaskIds |-> 0]
    /\ response = [t \in TaskIds |-> NoResponse]
    /\ pending = {}
    /\ wait_deadline = 0
    /\ completed = 0
    /\ timed_out = FALSE
    /\ found = <<>>
    /\ missing = <<>>
    /\ progress = <<>>

Init ==
    /\ query_groups \in QueryGroupChoices
    /\ limit = 1
    /\ timeout_seconds \in 1..MaxTimeout
    /\ progress_callback \in BOOLEAN
    /\ elsevier_api_key = FALSE
    /\ cancel_futures = TRUE
    /\ latency \in 0..MaxLatency
    /\ provider = [kind |-> "any", first |-> NoResponse]
    /\ InitState
    /\ NoDedup

\* More queries than pool threads, on either kind of interpreter, with a provider
\* that is down.
WideQueryGroups ==
    << <<"s1", <<"q1", "q2", "q3">>>>, <<"s2", <<>>>>, <<"s3", <<"q4", "q5", "q6">>>> >>

PoolInit ==
    /\ query_groups = WideQueryGroups
    /\ limit = 1
    /\ timeout_seconds \in 1..2
    /\ progress_callback = TRUE
    /\ elsevier_api_key = FALSE
    /\ cancel_futures \in BOOLEAN
    /\ latency = 1
    /\ provider = [kind |-> "down", first |-> NoResponse]
    /\ InitState
    /\ NoDedup

Next ==
    \/ Begin
    \/ Submit
    \/ Submitted
    \/ StartTask
    \/ \E t \in TaskIds : TaskComplete(t)
    \/ Check
    \/ WaitReturn
    \/ Shutdown
    \/ Tick

Spec == Init /\ [][Next]_vars

PoolSpec == PoolInit /\ [][Next]_vars

\* The dispatcher thread and the pool threads are scheduled and the clock runs; a
\* provider call is under no obligation to return.
Dispatcher == Begin \/ Submit \/ Submitted \/ Check \/ WaitReturn \/ Shutdown

\* Whether search_api returns does not depend on what the provider answers: every
\* call that returns at all fails.
FairInit ==
    /\ query_groups \in QueryGroupChoices
    /\ limit = 1
    /\ timeout_seconds \in 1..MaxTimeout
    /\ progress_callback = TRUE
    /\ elsevier_api_key = FALSE
    /\ cancel_futures = TRUE
    /\ latency \in 0..MaxLatency
    /\ provider = [kind |-> "down", first |-> NoResponse]
    /\ InitState
    /\ NoDedup

FairSpec ==
    FairInit /\ [][Next]_vars /\ WF_vars(Dispatcher) /\ WF_vars(StartTask) /\ WF_vars(Tick)

\* Two queries: the first meets any one provider response of up to MaxItems items,
\* the second a plain one-record answer.
ItemKinds ==
    { Item(TRUE, FALSE, FALSE, FALSE),      \* the mapping raises
      Item(FALSE, TRUE, FALSE, FALSE),      \* open-access PDF
      Item(FALSE, FALSE, TRUE, TRUE),       \* DOI, the fallback probe succeeds
      Item(FALSE, FALSE, TRUE, FALSE),      \* DOI, the fallback probe fails
      Item(FALSE, FALSE, FALSE, FALSE) }    \* neither PDF nor DOI

ItemSeqs == UNION {[1..n -> ItemKinds] : n \in 0..MaxItems}

AllResponses ==
    {[fail |-> "none", fail_pos |-> 0, items |-> is] : is \in ItemSeqs}
    \cup {[fail |-> "call", fail_pos |-> 0, items |-> is] : is \in {<<>>}}
    \cup UNION {{[fail |-> "iter", fail_pos |-> k, items |-> is] : k \in 0..Len(is)}
               : is \in ItemSeqs}

WorkerInit ==
    /\ query_groups = << <<"s1", <<"q1", "q2">>>> >>
    /\ limit \in 0..MaxItems
    /\ timeout_seconds = 1
    /\ progress_callback = TRUE
    /\ elsevier_api_key \in BOOLEAN
    /\ cancel_futures = TRUE
    /\ latency = 0
    /\ provider \in {[kind |-> "fixed", first |-> r] : r \in AllResponses}
    /\ InitState
    /\ NoDedup

WorkerSpec == WorkerInit /\ [][Next]_vars

\* One query whose results are all yielded, one item more than MaxItems, so that an
\* item whose mapping raises can stand between two others.
LongResponses ==
    {[fail |-> "none", fail_pos |-> 0, items |-> is] : is \in [1..MaxItems + 1 -> ItemKinds]}

MapInit ==
    /\ query_groups = << <<"s1", <<"q1">>>> >>
    /\ limit \in 0..MaxItems + 1
    /\ timeout_seconds = 1
    /\ progress_callback = TRUE
    /\ elsevier_api_key \in BOOLEAN
    /\ cancel_futures = TRUE
    /\ latency = 0
    /\ provider \in {[kind |-> "fixed", first |-> r] : r \in LongResponses}
    /\ InitState
    /\ NoDedup

MapSpec == MapInit /\ [][Next]_vars

\* Arguments that are not positive, next to one that is: search_api takes whatever
\* int() made of the settings (lines 6189-6190).
EdgeArguments == {-1, 0, 1}

EdgeInit ==
    /\ query_groups \in QueryGroupChoices
    /\ limit \in EdgeArguments
    /\ timeout_seconds \in EdgeArguments
    /\ progress_callback = TRUE
    /\ elsevier_api_key = FALSE
    /\ cancel_futures = TRUE
    /\ latency \in 0..1
    /\ provider = [kind |-> "any", first |-> NoResponse]
    /\ InitState
    /\ NoDedup

EdgeSpec == EdgeInit /\ [][Next]_vars

----------------------------------------------------------------------------
(* Properties of the dispatcher.                                           *)

Records == found \o missing

TaskOf(p) == p.paper_id[1]

EmptyResult == <<<<>>, <<>>>>

\* C1: no record of a task that finished after the deadline (elapsed >
\* timeout_seconds) is in the found or missing list of the dispatcher.
C1_NoLateRecord == \A i \in 1..Len(Records) : ~late[TaskOf(Records[i])]

\* C2: when every provider call takes strictly longer than timeout_seconds, a
\* dispatch with at least one task returns both lists empty, flagged as timed out,
\* with completed < total.
C2_SlowProviderTimesOut ==
    (pc = "returned" /\ total > 0 /\ latency > timeout_seconds)
        => (found = <<>> /\ missing = <<>> /\ timed_out /\ completed < total)

C4_FrozenAfterTimeout == [][timed_out => (found' = found /\ missing' = missing)]_vars

\* After the timed-out return a task finished with records, which were not merged.
C4_Witness ==
    /\ pc = "returned"
    /\ timed_out
    /\ \E t \in pending : status[t] = "done" /\ Result(t) # EmptyResult
    /\ \A i \in 1..Len(Records) : TaskOf(Records[i]) \notin pending

\* C5: at most max_workers (5) provider tasks execute at the same time.
C5_PoolWidth == Cardinality(Running) <= max_workers

\* Five tasks are running while a sixth waits in the queue.
C5_Witness == Cardinality(Running) = max_workers /\ Queued # {}

C7_ProgressCounts ==
    /\ completed = Cardinality(Collected)
    /\ completed <= total
    /\ progress_callback => progress = [i \in 1..completed |-> <<i, total>>]
    /\ ~progress_callback => progress = <<>>

\* Two completions were reported, one of them of a task whose search failed.
C7_Witness ==
    /\ progress_callback
    /\ Len(progress) >= 2
    /\ \E t \in Collected : response[t].fail = "call"

RECURSIVE FoundUpTo(_)
FoundUpTo(n) == IF n = 0 THEN EmptyBag ELSE FoundUpTo(n - 1) (+) BagOf(Result(n)[1])

RECURSIVE MissingUpTo(_)
MissingUpTo(n) == IF n = 0 THEN EmptyBag ELSE MissingUpTo(n - 1) (+) BagOf(Result(n)[2])

AllInTime == \A t \in TaskIds : status[t] = "done" /\ ~late[t]

WasOverdue == pending # {} \/ \E t \in Collected : late[t]

\* C9: search_api returns normally, flagged as timed out if and only if the elapsed
\* time exceeded timeout_seconds while a task was still pending; a batch whose
\* tasks were all collected is never flagged.
C9_FlaggedIffOverdue ==
    pc = "returned" =>
        /\ timed_out <=> WasOverdue
        /\ pending = {} => ~timed_out

\* C10 as claimed: a task whose search failed, at the call or while its results
\* were iterated, contributes empty lists.
C10_FailedTaskEmpty ==
    \A t \in Done : response[t].fail # "none" => Result(t) = EmptyResult

\* The items of task t's response that are yielded before the limit and before a
\* failure of the iterator, and whose mapping does not raise.
KeptItems(t) ==
    LET r == response[t]
    IN  IF r.fail = "call" THEN {}
        ELSE {i \in 1..Len(r.items) :
                /\ i <= per_query_limit
                /\ r.fail = "iter" => i <= r.fail_pos
                /\ ~r.items[i].bad}

IdsOf(ps) == {ps[i].paper_id : i \in 1..Len(ps)}

KeptIds == UNION {{<<t, i>> : i \in KeptItems(t)} : t \in TaskIds}

\* C10, amended: a task whose search raises at the call contributes empty lists; a
\* task whose result iterator raises contributes the records mapped from the items
\* yielded before the failure; the failure does not reach the dispatcher, which
\* collects every task and returns exactly the records of all tasks.
C10_FailedTaskKeepsPrefix ==
    /\ \A t \in Done :
          /\ response[t].fail = "call" => Result(t) = EmptyResult
          /\ response[t].fail = "iter" =>
                IdsOf(Result(t)[1] \o Result(t)[2]) = {<<t, i>> : i \in KeptItems(t)}
    /\ (pc = "returned" /\ ~timed_out) =>
          /\ completed = total
          /\ IdsOf(Records) = KeptIds
          /\ Len(Records) = Cardinality(KeptIds)

\* The iterator of the first task raised after a record had been mapped; that
\* record and the record of the second task were both returned.
C10_Witness ==
    /\ pc = "returned"
    /\ ~timed_out
    /\ response[1].fail = "iter"
    /\ Result(1) # EmptyResult
    /\ IdsOf(Records) = {<<1, i>> : i \in KeptItems(1)} \cup {<<2, 1>>}

----------------------------------------------------------------------------
(* Properties of the provider task.                                        *)

\* The number of items task t's loop takes from the iterator (lines 4741-4744).
Iterated(t) ==
    IF Yielded(response[t]) <= per_query_limit THEN Yielded(response[t]) ELSE per_query_limit

ResultIds(t) == IdsOf(Result(t)[1] \o Result(t)[2])

\* C11: when the mapping of an item raises inside a provider task, only that item
\* is skipped: the item brings no record, and every other item the loop takes,
\* before it or after it up to the per-query cap, whose mapping succeeds has its
\* record in the task's lists.
C11_OnlyBadItemSkipped ==
    \A t \in Done : \A b \in 1..Iterated(t) :
        response[t].items[b].bad =>
            /\ <<t, b>> \notin ResultIds(t)
            /\ \A j \in 1..Iterated(t) :
                  ~response[t].items[j].bad => <<t, j>> \in ResultIds(t)

\* A finished task whose loop took an item that raised between two items that
\* mapped: both neighbours were returned by search_api.
C11_Witness ==
    /\ pc = "returned"
    /\ 1 \in Done
    /\ \E b \in 2..Iterated(1) - 1 :
          /\ response[1].items[b].bad
          /\ ~response[1].items[b - 1].bad
          /\ ~response[1].items[b + 1].bad
          /\ {<<1, b - 1>>, <<1, b + 1>>} \subseteq IdsOf(Records)
          /\ <<1, b>> \notin IdsOf(Records)

\* C12 as claimed: a dispatch with a non-positive timeout or a non-positive
\* per-query limit is rejected before any provider task is created: no task is
\* submitted, no search is invoked and no record is produced.
C12_NonPositiveRejected ==
    (timeout_seconds <= 0 \/ limit <= 0) =>
        /\ \A t \in TaskIds : status[t] = "new" /\ calls[t] = 0
        /\ Records = <<>>

\* The records of a dispatch that took one item from every query.
FirstItemIds ==
    {<<t, 1>> : t \in {u \in TaskIds : /\ Yielded(response[u]) >= 1
                                       /\ ~response[u].items[1].bad}}

\* C12, amended: search_api rejects neither. Whatever the timeout and the limit,
\* every query has its task submitted before the deadline is first looked at. A
\* non-positive limit is taken as 1: a dispatch that collects all its tasks returns
\* the record of the first item of every query. A negative timeout is over at the
\* first look: the dispatch returns empty lists with nothing collected, flagged as
\* timed out, though searches may have been invoked.
C12_NonPositiveAccepted ==
    /\ pc \in {"check", "wait", "shutdown"} => \A t \in TaskIds : status[t] # "new"
    /\ (pc = "returned" /\ limit <= 0 /\ ~timed_out) => IdsOf(Records) = FirstItemIds
    /\ (pc = "returned" /\ timeout_seconds < 0 /\ total > 0) =>
          /\ timed_out
          /\ completed = 0
          /\ Records = <<>>
          /\ \A t \in TaskIds : status[t] # "new"

\* A dispatch with limit 0 or less has invoked a search and returned a record.
C12_Witness ==
    /\ limit <= 0
    /\ pc = "returned"
    /\ ~timed_out
    /\ \E t \in TaskIds : calls[t] = 1 /\ <<t, 1>> \in IdsOf(Records)

\* Whether item i of task t's response comes with a PDF: an open-access URL, or a
\* DOI that the Elsevier probe resolves when a key is configured.
HasPdf(t, i) ==
    LET item == response[t].items[i]
    IN  item.pdf \/ (item.doi /\ elsevier_api_key /\ item.probe)

\* C13: every record a provider task maps is in exactly one of its two lists, once:
\* in local_found if and only if its pdf_source is not the value "None", that is
\* when the item carried a PDF URL or the fallback probe succeeded, and otherwise
\* in local_missing.
C13_OneListBySource ==
    \A t \in Done :
        LET f == Result(t)[1]
            m == Result(t)[2]
        IN  /\ \A k \in 1..Len(f) :
                  f[k].pdf_source # "None" /\ HasPdf(t, f[k].paper_id[2])
            /\ \A k \in 1..Len(m) :
                  m[k].pdf_source = "None" /\ ~HasPdf(t, m[k].paper_id[2])
            /\ IdsOf(f) \cap IdsOf(m) = {}
            /\ IdsOf(f) \cup IdsOf(m) = {<<t, i>> : i \in KeptItems(t)}
            /\ Len(f) + Len(m) = Cardinality(KeptItems(t))

\* A finished task with a record found through the fallback probe and a record
\* without a PDF.
C13_Witness ==
    /\ 1 \in Done
    /\ \E k \in 1..Len(Result(1)[1]) : Result(1)[1][k].pdf_source = "Elsevier"
    /\ Result(1)[2] # <<>>

----------------------------------------------------------------------------
(* Text.  A Python str is a TLA+ string; the operations on it work on its  *)
(* list of characters.                                                     *)

Chars(s) == [i \in 1..Len(s) |-> SubSeq(s, i, i)]

RECURSIVE Join(_)
Join(cs) == IF cs = <<>> THEN "" ELSE Head(cs) \o Join(Tail(cs))

\* The characters of the model's texts, in code point order.
CodePoints == Chars(" !#&'()*+,-./0123456789:;=?@ABCDEFGHIJKLMNOPQRSTUVWXYZ[]_abcdefghijklmnopqrstuvwxyz|")

UpperCase == Chars("ABCDEFGHIJKLMNOPQRSTUVWXYZ")
LowerCase == Chars("abcdefghijklmnopqrstuvwxyz")
Digits == Chars("0123456789")

Range(f) == {f[i] : i \in DOMAIN f}

Letters == Range(UpperCase) \cup Range(LowerCase)
DigitChars == Range(Digits)
WordChars == Letters \cup DigitChars \cup {"_"}

\* ord(c), for the characters of CodePoints
OrdTable == [c \in Range(CodePoints) |-> CHOOSE i \in DOMAIN CodePoints : CodePoints[i] = c]
Ord(c) == OrdTable[c]

\* str.lower() on one character
LowerTable ==
    [c \in Range(CodePoints) |->
        IF c \in Range(UpperCase)
        THEN LowerCase[CHOOSE i \in DOMAIN UpperCase : UpperCase[i] = c]
        ELSE c]
LowerChar(c) == LowerTable[c]

\* \w and \s of the re module, on the model's characters
IsWord(c) == c \in WordChars
IsSpace(c) == c = " "

\* a < b for two str values: lexicographic by code point
RECURSIVE CharsLess(_, _)
CharsLess(a, b) ==
    IF b = <<>> THEN FALSE
    ELSE IF a = <<>> THEN TRUE
    ELSE IF Head(a) = Head(b) THEN CharsLess(Tail(a), Tail(b))
    ELSE Ord(Head(a)) < Ord(Head(b))

StrLess(a, b) == CharsLess(Chars(a), Chars(b))

\* str.strip() and str.rstrip() on a list of characters
RECURSIVE LStrip(_)
LStrip(cs) == IF cs # <<>> /\ IsSpace(Head(cs)) THEN LStrip(Tail(cs)) ELSE cs

RECURSIVE RStrip(_)
RStrip(cs) ==
    IF cs # <<>> /\ IsSpace(cs[Len(cs)]) THEN RStrip(SubSeq(cs, 1, Len(cs) - 1)) ELSE cs

Strip(cs) == LStrip(RStrip(cs))

StartsWith(cs, pat) == Len(cs) >= Len(pat) /\ SubSeq(cs, 1, Len(pat)) = pat

\* str.replace(pat, ""): every occurrence, left to right, is removed
RECURSIVE Remove(_, _)
Remove(cs, pat) ==
    IF cs = <<>> THEN <<>>
    ELSE IF StartsWith(cs, pat) THEN Remove(SubSeq(cs, Len(pat) + 1, Len(cs)), pat)
    ELSE <<Head(cs)>> \o Remove(Tail(cs), pat)

\* re.sub(r"\s+", " ", text)
RECURSIVE Collapse(_)
Collapse(cs) ==
    IF cs = <<>> THEN <<>>
    ELSE IF IsSpace(Head(cs)) /\ Len(cs) > 1 /\ IsSpace(cs[2]) THEN Collapse(Tail(cs))
    ELSE <<Head(cs)>> \o Collapse(Tail(cs))

\* Python's truth value of a text field: None and "" are false
Truthy(v) == v \notin {NoValue, ""}

----------------------------------------------------------------------------
(* The normalisers, lines 5299-5367.                                       *)

_normalize_doi(doi) ==
    IF ~Truthy(doi) THEN NoValue
    ELSE LET stripped == Strip(Chars(doi))
             bare     == Remove(Remove(stripped, Chars("https://doi.org/")),
                                Chars("http://doi.org/"))
             inner    == Strip(bare)
             cleaned  == Join([i \in DOMAIN inner |-> LowerChar(inner[i])])
         IN  IF cleaned = "" THEN NoValue ELSE cleaned

\* The body shared by _normalize_title and _normalize_author.
NormalizeText(text) ==
    LET cs    == Chars(text)
        lower == [i \in DOMAIN cs |-> LowerChar(cs[i])]
        plain == [i \in DOMAIN lower |->
                    IF IsWord(lower[i]) \/ IsSpace(lower[i]) THEN lower[i] ELSE " "]
        clean == Join(Strip(Collapse(plain)))
    IN  IF clean = "" THEN NoValue ELSE clean

_normalize_title(title) == IF ~Truthy(title) THEN NoValue ELSE NormalizeText(title)

_normalize_author(author) == IF ~Truthy(author) THEN NoValue ELSE NormalizeText(author)

\* The prefix of cs before the first character of `stops` (all of cs if none).
RECURSIVE UpTo(_, _)
UpTo(cs, stops) ==
    IF cs = <<>> \/ Head(cs) \in stops THEN <<>>
    ELSE <<Head(cs)>> \o UpTo(Tail(cs), stops)

\* The authors of a record are one string of names joined by ", " (line 4790):
\* the first author is what stands before the first comma.
_extract_first_author(authors) ==
    IF ~Truthy(authors) THEN NoValue
    ELSE _normalize_author(Join(UpTo(Chars(authors), {","})))

\* re.search(r"\b(19|20)\d{2}\b", str(year)): the leftmost four-digit year that is
\* not part of a longer word.
_normalize_year(year) ==
    IF ~Truthy(year) THEN NoValue
    ELSE LET cs == Chars(year)
             Match(i) ==
                 /\ i + 3 <= Len(cs)
                 /\ SubSeq(cs, i, i + 1) \in {<<"1", "9">>, <<"2", "0">>}
                 /\ cs[i + 2] \in DigitChars /\ cs[i + 3] \in DigitChars
                 /\ i = 1 \/ ~IsWord(cs[i - 1])
                 /\ i + 3 = Len(cs) \/ ~IsWord(cs[i + 4])
             hits == {i \in DOMAIN cs : Match(i)}
         IN  IF hits = {} THEN NoValue
             ELSE LET i == CHOOSE h \in hits : \A g \in hits : h <= g
                  IN  Join(SubSeq(cs, i, i + 3))

\* int() of a normalised year
YearInt(y) ==
    LET d(i) == (CHOOSE k \in DOMAIN Digits : Digits[k] = Chars(y)[i]) - 1
    IN  1000 * d(1) + 100 * d(2) + 10 * d(3) + d(4)

\* str.rstrip("/")
RECURSIVE RStripSlash(_)
RStripSlash(cs) ==
    IF cs # <<>> /\ cs[Len(cs)] = "/" THEN RStripSlash(SubSeq(cs, 1, Len(cs) - 1)) ELSE cs

\* urlsplit: the scheme stands before the first ":" and is made of letters, digits
\* and "+-." after a first letter; the netloc follows "//" up to the next "/", "?"
\* or "#"; the path ends at "?" or "#".
_normalize_pdf_url(url) ==
    IF ~Truthy(url) THEN NoValue
    ELSE LET cs      == Strip(Chars(url))
             head    == UpTo(cs, {":"})
             scheme  == IF /\ Len(head) < Len(cs)
                           /\ head # <<>>
                           /\ head[1] \in Letters
                           /\ \A i \in DOMAIN head :
                                 head[i] \in Letters \cup DigitChars \cup {"+", "-", "."}
                        THEN head ELSE <<>>
             rest    == IF scheme = <<>> THEN cs ELSE SubSeq(cs, Len(scheme) + 2, Len(cs))
             slashes == StartsWith(rest, <<"/", "/">>)
             after   == IF slashes THEN SubSeq(rest, 3, Len(rest)) ELSE rest
             netloc  == IF slashes THEN UpTo(after, {"/", "?", "#"}) ELSE <<>>
             path    == UpTo(SubSeq(after, Len(netloc) + 1, Len(after)), {"?", "#"})
             lower(x) == [i \in DOMAIN x |-> LowerChar(x[i])]
         IN  IF scheme = <<>> \/ netloc = <<>> THEN NoValue
             ELSE Join(lower(scheme) \o <<":", "/", "/">> \o lower(netloc) \o RStripSlash(path))

\* Mutant of Unique: repeated elements are kept.
UniqueKeepAll(xs) == xs

\* list(dict.fromkeys(xs)): the first occurrence of every element, in order
RECURSIVE Unique(_)
Unique(xs) ==
    IF xs = <<>> THEN <<>>
    ELSE LET init == Unique(SubSeq(xs, 1, Len(xs) - 1))
             last == xs[Len(xs)]
         IN  IF last \in Range(init) THEN init ELSE Append(init, last)

\* The external ids of a record: paper.external_ids lists the values found under
\* externalIds, external_ids, s2_paper_id, paperId, openalex_id and openalexId, in
\* that order.
_collect_external_ids(paper) ==
    LET vals == SelectSeq(paper.external_ids, Truthy)
    IN  Unique([i \in DOMAIN vals |->
                  LET cs == Strip(Chars(vals[i]))
                  IN  Join([k \in DOMAIN cs |-> LowerChar(cs[k])])])

----------------------------------------------------------------------------
(* difflib.SequenceMatcher(None, a, b).ratio() for texts shorter than the  *)
(* 200 characters at which the "popular element" heuristic sets in.        *)

\* Length of the common run of a from i and b from j, inside a[..ahi] and b[..bhi].
RECURSIVE RunLen(_, _, _, _, _, _)
RunLen(a, b, i, j, ahi, bhi) ==
    IF i > ahi \/ j > bhi \/ a[i] # b[j] THEN 0
    ELSE 1 + RunLen(a, b, i + 1, j + 1, ahi, bhi)

\* find_longest_match: a longest block a[i..i+k-1] = b[j..j+k-1] inside the two
\* ranges; of the longest blocks the one that starts earliest in a and, of those,
\* earliest in b.  <<i, j, k>>, with k = 0 if no character matches.
FindLongestMatch(a, b, alo, ahi, blo, bhi) ==
    LET starts == (alo..ahi) \X (blo..bhi)
        k      == [p \in starts |-> RunLen(a, b, p[1], p[2], ahi, bhi)]
        Min(S) == CHOOSE x \in S : \A y \in S : x <= y
        size   == CHOOSE x \in {k[p] : p \in starts} : \A p \in starts : k[p] <= x
        i      == Min({p[1] : p \in {q \in starts : k[q] = size}})
        j      == Min({p[2] : p \in {q \in starts : k[q] = size /\ q[1] = i}})
    IN  IF starts = {} THEN <<alo, blo, 0>> ELSE <<i, j, size>>

\* get_matching_blocks: the number of characters in the longest block and,
\* recursively, in the matching blocks to its left and to its right.
RECURSIVE Matches(_, _, _, _, _, _)
Matches(a, b, alo, ahi, blo, bhi) ==
    LET m == FindLongestMatch(a, b, alo, ahi, blo, bhi)
    IN  IF m[3] = 0 THEN 0
        ELSE m[3] + Matches(a, b, alo, m[1] - 1, blo, m[2] - 1)
                  + Matches(a, b, m[1] + m[3], ahi, m[2] + m[3], bhi)

\* ratio() = 2.0 * matches / (len(a) + len(b)), kept as the fraction <<num, den>>;
\* 1.0 for two empty texts.
SequenceMatcherRatio(a, b) ==
    LET ca == Chars(a)
        cb == Chars(b)
    IN  IF Len(ca) + Len(cb) = 0 THEN <<1, 1>>
        ELSE <<2 * Matches(ca, cb, 1, Len(ca), 1, Len(cb)), Len(ca) + Len(cb)>>

\* Comparisons of a ratio with a ratio and with a number of hundredths.
RatioGreater(r, q) == r[1] * q[2] > q[1] * r[2]
RatioAtLeast(r, h) == 100 * r[1] >= h * r[2]
RatioBelow(r, h) == 100 * r[1] < h * r[2]
RatioAbove(r, h) == 100 * r[1] > h * r[2]

----------------------------------------------------------------------------
(* deduplicate_papers, lines 5534-5656: the cluster builder.               *)
(* A cluster (`group`) lists its members by their position in `papers`;    *)
(* clusters are numbered from 1, and 0 stands for "no cluster" (None).     *)

\* dict.setdefault(k, v)
\* Mutant of SetDefault: plain assignment, the last writer wins.
SetDefaultOverwrite(m, k, v) == [x \in DOMAIN m \cup {k} |-> IF x = k THEN v ELSE m[x]]

SetDefault(m, k, v) == IF k \in DOMAIN m THEN m ELSE m @@ (k :> v)

\* The keys of one paper (lines 5597-5613).
Keys(paper) ==
    LET title_norm   == _normalize_title(paper.title)
        first_author == _extract_first_author(paper.authors)
        year_norm    == _normalize_year(paper.year)
    IN  [doi     |-> _normalize_doi(paper.doi),
         title   |-> title_norm,
         tya     |-> IF NoValue \in {title_norm, year_norm, first_author} THEN NoValue
                     ELSE title_norm \o "|" \o year_norm \o "|" \o first_author,
         pdf     |-> _normalize_pdf_url(paper.pdf_url),
         ext_ids |-> _collect_external_ids(paper)]

_doi_conflict(group, doi_norm) ==
    doi_norm # NoValue /\ group.doi_norms # {} /\ doi_norm \notin group.doi_norms

\* The loop of _find_fuzzy_title_group over the first n clusters of gs:
\* [idx, ratio], the first cluster with the greatest ratio above 0.0.
RECURSIVE FuzzyBest(_, _, _, _)
FuzzyBest(gs, n, title_norm, doi_norm) ==
    IF n = 0 THEN [idx |-> 0, ratio |-> <<0, 1>>]
    ELSE LET best  == FuzzyBest(gs, n - 1, title_norm, doi_norm)
             group == gs[n]
         IN  IF group.title_norm = NoValue \/ _doi_conflict(group, doi_norm) THEN best
             ELSE LET ratio == SequenceMatcherRatio(title_norm, group.title_norm)
                  IN  IF RatioGreater(ratio, best.ratio)
                      THEN [idx |-> n, ratio |-> ratio]
                      ELSE best

\* The end of _find_fuzzy_title_group (lines 5561-5570) for the best cluster found:
\* [idx, warn], the cluster (0 for None) and the warning appended, if any.
FuzzyFound(best, title_norm, threshold) ==
    IF RatioAtLeast(best.ratio, threshold)
    THEN [idx  |-> best.idx,
          warn |-> IF RatioBelow(best.ratio, threshold + 2)
                   THEN <<[ratio |-> best.ratio, title |-> title_norm]>> ELSE <<>>]
    ELSE [idx |-> 0, warn |-> <<>>]

\* Mutant of _find_fuzzy_title_group: a ratio equal to the threshold is refused.
_find_fuzzy_title_groupStrict(gs, title_norm, doi_norm, threshold) ==
    LET best == FuzzyBest(gs, Len(gs), title_norm, doi_norm)
    IN  IF RatioAbove(best.ratio, threshold)
        THEN [idx  |-> best.idx,
              warn |-> IF RatioBelow(best.ratio, threshold + 2)
                       THEN <<[ratio |-> best.ratio, title |-> title_norm]>> ELSE <<>>]
        ELSE [idx |-> 0, warn |-> <<>>]

\* Mutant of _find_fuzzy_title_group: the best cluster is sought among all clusters
\* and the DOI-conflict guard is applied to it afterwards.
_find_fuzzy_title_groupGuardLast(gs, title_norm, doi_norm, threshold) ==
    LET hit == FuzzyFound(FuzzyBest(gs, Len(gs), title_norm, NoValue), title_norm, threshold)
    IN  IF hit.idx # 0 /\ _doi_conflict(gs[hit.idx], doi_norm)
        THEN [idx |-> 0, warn |-> <<>>] ELSE hit

\* _find_fuzzy_title_group (lines 5546-5570).
_find_fuzzy_title_group(gs, title_norm, doi_norm, threshold) ==
    FuzzyFound(FuzzyBest(gs, Len(gs), title_norm, doi_norm), title_norm, threshold)

\* The first element of ext_ids that ext_map knows (lines 5619-5622), as a list.
KnownExt(ext_map_, ext_ids) == SelectSeq(ext_ids, LAMBDA e : e \in DOMAIN ext_map_)

\* Mutant of FuzzyOrPdf: the PDF URL is not a key.
FuzzyOrPdfNever(fuzzy, by_pdf) == fuzzy

\* Lines 5627-5635: the fuzzy match if there is one, else the cluster of the PDF
\* URL (by_pdf, 0 for none); a fuzzy warning is kept either way.
FuzzyOrPdf(fuzzy, by_pdf) ==
    IF fuzzy.idx # 0 THEN fuzzy ELSE [idx |-> by_pdf, warn |-> fuzzy.warn]

\* Mutant of Match: the exact title is looked up before the DOI.
MatchTitleFirst(st, k, threshold) ==
    LET known  == KnownExt(st.ext_map, k.ext_ids)
        exact  == IF k.title # NoValue /\ k.title \in DOMAIN st.title_map
                     /\ ~_doi_conflict(st.groups[st.title_map[k.title]], k.doi)
                  THEN st.title_map[k.title] ELSE 0
        by_pdf == IF k.pdf # NoValue /\ k.pdf \in DOMAIN st.pdf_map
                     /\ ~_doi_conflict(st.groups[st.pdf_map[k.pdf]], k.doi)
                  THEN st.pdf_map[k.pdf] ELSE 0
    IN  IF k.title # NoValue /\ exact # 0
        THEN [idx |-> exact, warn |-> <<>>]
        ELSE IF k.doi # NoValue /\ k.doi \in DOMAIN st.doi_map
        THEN [idx |-> st.doi_map[k.doi], warn |-> <<>>]
        ELSE IF known # <<>>
        THEN [idx |-> st.ext_map[known[1]], warn |-> <<>>]
        ELSE IF k.tya # NoValue /\ k.tya \in DOMAIN st.tya_map
        THEN [idx |-> st.tya_map[k.tya], warn |-> <<>>]
        ELSE FuzzyOrPdf(IF k.title # NoValue
                        THEN _find_fuzzy_title_group(st.groups, k.title, k.doi, threshold)
                        ELSE [idx |-> 0, warn |-> <<>>],
                        by_pdf)

\* The cluster chosen for a paper with keys k (lines 5615-5635) in the builder state
\* st: [idx, warn].
Match(st, k, threshold) ==
    LET known  == KnownExt(st.ext_map, k.ext_ids)
        exact  == IF k.title # NoValue /\ k.title \in DOMAIN st.title_map
                     /\ ~_doi_conflict(st.groups[st.title_map[k.title]], k.doi)
                  THEN st.title_map[k.title] ELSE 0
        by_pdf == IF k.pdf # NoValue /\ k.pdf \in DOMAIN st.pdf_map
                     /\ ~_doi_conflict(st.groups[st.pdf_map[k.pdf]], k.doi)
                  THEN st.pdf_map[k.pdf] ELSE 0
    IN  IF k.doi # NoValue /\ k.doi \in DOMAIN st.doi_map
        THEN [idx |-> st.doi_map[k.doi], warn |-> <<>>]
        ELSE IF known # <<>>
        THEN [idx |-> st.ext_map[known[1]], warn |-> <<>>]
        ELSE IF k.tya # NoValue /\ k.tya \in DOMAIN st.tya_map
        THEN [idx |-> st.tya_map[k.tya], warn |-> <<>>]
        ELSE IF k.title # NoValue /\ exact # 0
        THEN [idx |-> exact, warn |-> <<>>]
        ELSE FuzzyOrPdf(IF k.title # NoValue
                        THEN _find_fuzzy_title_group(st.groups, k.title, k.doi, threshold)
                        ELSE [idx |-> 0, warn |-> <<>>],
                        by_pdf)

\* setdefault of every element of ext_ids (lines 5585-5586).
RECURSIVE SetDefaultAll(_, _, _)
SetDefaultAll(m, ks, v) ==
    IF ks = <<>> THEN m ELSE SetDefaultAll(SetDefault(m, Head(ks), v), Tail(ks), v)

SetDefaultIf(m, k, v) == IF k = NoValue THEN m ELSE SetDefault(m, k, v)

\* _add_to_group (lines 5573-5594) for paper number i with keys k.
_add_to_group(st, group_idx, i, k) ==
    LET group == st.groups[group_idx]
    IN  [st EXCEPT
           !.groups = [@ EXCEPT ![group_idx] =
               [papers     |-> Append(group.papers, i),
                title_norm |-> IF k.title # NoValue /\ group.title_norm = NoValue
                               THEN k.title ELSE group.title_norm,
                doi_norms  |-> IF k.doi # NoValue THEN group.doi_norms \cup {k.doi}
                               ELSE group.doi_norms]],
           !.doi_map   = SetDefaultIf(@, k.doi, group_idx),
           !.ext_map   = SetDefaultAll(@, k.ext_ids, group_idx),
           !.tya_map   = SetDefaultIf(@, k.tya, group_idx),
           !.title_map = SetDefaultIf(@, k.title, group_idx),
           !.pdf_map   = SetDefaultIf(@, k.pdf, group_idx)]

\* The builder state before the first paper (lines 5538-5544).
NoGroups ==
    [groups |-> <<>>, doi_map |-> <<>>, ext_map |-> <<>>, tya_map |-> <<>>,
     title_map |-> <<>>, pdf_map |-> <<>>, fuzzy_warnings |-> <<>>]

\* A new cluster for a paper with keys k (lines 5638-5642).
Fresh(k) == [papers |-> <<>>, title_norm |-> k.title, doi_norms |-> {}]

\* Lines 5637-5644: the paper number i with keys k joins the cluster m.idx that
\* was found for it, or a new one.
Place(st, k, m, i) ==
    IF m.idx # 0
    THEN _add_to_group([st EXCEPT !.fuzzy_warnings = @ \o m.warn], m.idx, i, k)
    ELSE _add_to_group([st EXCEPT !.fuzzy_warnings = @ \o m.warn,
                                  !.groups = Append(@, Fresh(k))],
                       Len(st.groups) + 1, i, k)

\* Mutant of TakePaper: a new cluster is allocated for every paper, matched or not.
TakePaperAlwaysNew(st, ps, i, threshold) ==
    LET k   == Keys(ps[i])
        m   == Match(st, k, threshold)
        st1 == [st EXCEPT !.fuzzy_warnings = @ \o m.warn, !.groups = Append(@, Fresh(k))]
    IN  _add_to_group(st1, IF m.idx # 0 THEN m.idx ELSE Len(st.groups) + 1, i, k)

\* One round of the main loop (lines 5596-5644): paper number i of ps.
TakePaper(st, ps, i, threshold) ==
    Place(st, Keys(ps[i]), Match(st, Keys(ps[i]), threshold), i)

\* The main loop over the first n papers of ps.
RECURSIVE Clustered(_, _, _)
Clustered(ps, n, threshold) ==
    IF n = 0 THEN NoGroups ELSE TakePaper(Clustered(ps, n - 1, threshold), ps, n, threshold)

----------------------------------------------------------------------------
(* _merge_paper_group, lines 5411-5529: the canonical record of a cluster. *)
(* Of the fields of a record the model keeps paper_id, title, year,        *)
(* authors, citations, abstract, pdf_url, pdf_source, doi, external_ids,   *)
(* query and section, and the three provenance fields the merger adds      *)
(* (an empty list stands for a key that is not set).                       *)

\* value or ""
Text(v) == IF v = NoValue THEN "" ELSE v

\* _has_real_text(text, {placeholder})
_has_real_text(text, placeholder) ==
    /\ Truthy(text)
    /\ Strip(Chars(text)) # <<>>
    /\ Join(Strip(Chars(text))) # placeholder

BoolInt(b) == IF b THEN 1 ELSE 0

\* _score_canonical without has_tldr, which is the same for all records of the model.
_score_canonical(paper) ==
    << BoolInt(_normalize_doi(paper.doi) # NoValue),
       BoolInt(Truthy(paper.pdf_url)),
       BoolInt(_has_real_text(paper.abstract, "No abstract.")),
       paper.citations,
       Len(Text(paper.abstract)),
       Len(Text(paper.title)) >>

\* a < b for two tuples of numbers of the same length
RECURSIVE TupleLess(_, _)
TupleLess(a, b) ==
    IF a = <<>> THEN FALSE
    ELSE IF Head(a) = Head(b) THEN TupleLess(Tail(a), Tail(b))
    ELSE Head(a) < Head(b)

\* max(members, key=_score_canonical): the first member with the greatest score.
Best(members) ==
    members[CHOOSE i \in DOMAIN members :
               /\ \A j \in DOMAIN members :
                     ~TupleLess(_score_canonical(members[i]), _score_canonical(members[j]))
               /\ \A j \in 1..i - 1 :
                     TupleLess(_score_canonical(members[j]), _score_canonical(members[i]))]

_pdf_source_rank(paper) ==
    IF ~Truthy(paper.pdf_url) THEN 0
    ELSE IF paper.pdf_source = "OpenAlex" THEN 3
    ELSE IF paper.pdf_source = "Elsevier" THEN 2
    ELSE 1

\* Mutant of BestPdf: only the URL of a better member is taken, not its source.
RECURSIVE BestPdfUrlOnly(_, _)
BestPdfUrlOnly(canonical, members) ==
    IF members = <<>> THEN canonical
    ELSE LET best == BestPdfUrlOnly(canonical, SubSeq(members, 1, Len(members) - 1))
             p    == members[Len(members)]
         IN  IF _pdf_source_rank(p) > _pdf_source_rank(best)
             THEN [best EXCEPT !.pdf_url = p.pdf_url] ELSE best

\* Mutant of BestPdf: a member of equal rank also replaces the PDF taken so far.
RECURSIVE BestPdfLastWins(_, _)
BestPdfLastWins(canonical, members) ==
    IF members = <<>> THEN canonical
    ELSE LET best == BestPdfLastWins(canonical, SubSeq(members, 1, Len(members) - 1))
             p    == members[Len(members)]
         IN  IF _pdf_source_rank(p) >= _pdf_source_rank(best) THEN p ELSE best

\* Mutant of BestPdf: the base's PDF is never replaced.
BestPdfOfBase(canonical, members) == canonical

\* Lines 5437-5445: the record whose PDF is taken, canonical first.
RECURSIVE BestPdf(_, _)
BestPdf(canonical, members) ==
    IF members = <<>> THEN canonical
    ELSE LET best == BestPdf(canonical, SubSeq(members, 1, Len(members) - 1))
             p    == members[Len(members)]
         IN  IF _pdf_source_rank(p) > _pdf_source_rank(best) THEN p ELSE best

\* Lines 5451-5459 for the field f (title or authors): the first longest text.
RECURSIVE Longest(_, _, _)
Longest(start, members, f) ==
    IF members = <<>> THEN start
    ELSE LET sofar == Longest(start, SubSeq(members, 1, Len(members) - 1), f)
             v     == members[Len(members)][f]
         IN  IF Truthy(v) /\ Len(v) > Len(Text(sofar)) THEN v ELSE sofar

\* Lines 5461-5465: the earliest normalised year, NoValue if there is none.
RECURSIVE EarliestYear(_, _)
EarliestYear(start, members) ==
    IF members = <<>> THEN start
    ELSE LET sofar == EarliestYear(start, SubSeq(members, 1, Len(members) - 1))
             cand  == _normalize_year(members[Len(members)].year)
         IN  IF cand # NoValue /\ (sofar = NoValue \/ YearInt(cand) < YearInt(sofar))
             THEN cand ELSE sofar

\* sorted(doi_norms)[0]
SmallestDoi(doi_norms) == CHOOSE d \in doi_norms : \A x \in doi_norms : ~StrLess(x, d)

\* Mutant of _merge_paper_group: the canonical record keeps the normalised DOI
\* of the base.
_merge_paper_groupBaseDoi(group, ps) ==
    LET best == Best([i \in DOMAIN group.papers |-> ps[group.papers[i]]])
    IN  [best EXCEPT !.doi = IF _normalize_doi(@) # NoValue THEN _normalize_doi(@) ELSE @]

_merge_paper_group(group, ps) ==
    LET members   == [i \in DOMAIN group.papers |-> ps[group.papers[i]]]
        best      == Best(members)
        doi_norms == {_normalize_doi(members[i].doi) : i \in DOMAIN members} \ {NoValue}
        field(f)  == [i \in DOMAIN members |-> members[i][f]]
        queries   == SelectSeq(field("query"), Truthy)
        sections  == SelectSeq(field("section"), Truthy)
        dup_ids   == SelectSeq(field("paper_id"), LAMBDA pid : pid # 0 /\ pid # best.paper_id)
        pdf       == BestPdf(best, members)
        year_norm == EarliestYear(_normalize_year(best.year), members)
        cites     == {members[i].citations : i \in DOMAIN members}
        real      == SelectSeq(field("abstract"), LAMBDA a : _has_real_text(a, "No abstract."))
    IN  [best EXCEPT
           !.doi        = IF doi_norms # {} THEN SmallestDoi(doi_norms) ELSE @,
           !.pdf_url    = IF Truthy(pdf.pdf_url) THEN pdf.pdf_url ELSE @,
           !.pdf_source = IF Truthy(pdf.pdf_source) THEN pdf.pdf_source ELSE @,
           !.title      = Longest(@, members, "title"),
           !.authors    = Longest(@, members, "authors"),
           !.year       = IF year_norm # NoValue THEN year_norm ELSE @,
           !.citations  = CHOOSE c \in cites : \A d \in cites : d <= c,
           !.abstract   = IF ~_has_real_text(@, "No abstract.") /\ real # <<>>
                          THEN real[1] ELSE @,
           !.all_queries         = IF queries # <<>> THEN Unique(queries) ELSE @,
           !.all_sections        = IF sections # <<>> THEN Unique(sections) ELSE @,
           !.duplicate_paper_ids = IF dup_ids # <<>> THEN Unique(dup_ids) ELSE @]

\* Lines 5646-5648.
Merged(gs, ps) == [g \in DOMAIN gs |-> _merge_paper_group(gs[g], ps)]

\* Lines 5650-5655.
Stats(ps, gs, ms, warnings) ==
    [input |-> Len(ps), groups |-> Len(gs), output |-> Len(ms), fuzzy_warnings |-> warnings]

NoStats == [input |-> 0, groups |-> 0, output |-> 0, fuzzy_warnings |-> <<>>]

\* deduplicate_papers(ps, threshold): <<merged, stats>>.
deduplicate_papers(ps, threshold) ==
    IF ps = <<>> THEN <<<<>>, NoStats>>
    ELSE LET st == Clustered(ps, Len(ps), threshold)
             ms == Merged(st.groups, ps)
         IN  <<ms, Stats(ps, st.groups, ms, st.fuzzy_warnings)>>

----------------------------------------------------------------------------
(* deduplicate_papers as a state machine: one step per round of its main   *)
(* loop.                                                                   *)

\* The builder's local variables as one value, and back.
Builder ==
    [groups |-> groups, doi_map |-> doi_map, ext_map |-> ext_map, tya_map |-> tya_map,
     title_map |-> title_map, pdf_map |-> pdf_map, fuzzy_warnings |-> fuzzy_warnings]

SetBuilder(st) ==
    /\ groups' = st.groups
    /\ doi_map' = st.doi_map
    /\ ext_map' = st.ext_map
    /\ tya_map' = st.tya_map
    /\ title_map' = st.title_map
    /\ pdf_map' = st.pdf_map
    /\ fuzzy_warnings' = st.fuzzy_warnings

\* Lines 5535-5544: an empty list is answered at once.
DedupEntry ==
    /\ dedup_pc = "called"
    /\ IF papers = <<>>
       THEN /\ dedup_pc' = "returned"
            /\ stats' = NoStats
       ELSE /\ dedup_pc' = "loop"
            /\ UNCHANGED stats
    /\ UNCHANGED <<search, papers, fuzzy_threshold, paper_no, groups, doi_map, ext_map,
                   tya_map, title_map, pdf_map, fuzzy_warnings, merged>>

\* Lines 5596-5644: the next paper is put into a cluster.
TakeNext ==
    /\ dedup_pc = "loop"
    /\ paper_no < Len(papers)
    /\ paper_no' = paper_no + 1
    /\ SetBuilder(TakePaper(Builder, papers, paper_no + 1, fuzzy_threshold))
    /\ UNCHANGED <<search, papers, fuzzy_threshold, dedup_pc, merged, stats>>

\* Lines 5646-5656: the clusters are merged and the call returns.
MergeGroups ==
    /\ dedup_pc = "loop"
    /\ paper_no = Len(papers)
    /\ merged' = Merged(groups, papers)
    /\ stats' = Stats(papers, groups, merged', fuzzy_warnings)
    /\ dedup_pc' = "returned"
    /\ UNCHANGED <<search, papers, fuzzy_threshold, paper_no, groups, doi_map, ext_map,
                   tya_map, title_map, pdf_map, fuzzy_warnings>>

DedupNext == DedupEntry \/ TakeNext \/ MergeGroups

\* search_api is not running.
NoSearch ==
    /\ query_groups = <<>>
    /\ limit = 1
    /\ timeout_seconds = 1
    /\ progress_callback = FALSE
    /\ elsevier_api_key = FALSE
    /\ cancel_futures = TRUE
    /\ latency = 0
    /\ provider = [kind |-> "down", first |-> NoResponse]
    /\ InitState

\* A call of deduplicate_papers(ps, threshold / 100).
Called(ps, threshold) ==
    /\ papers = ps
    /\ fuzzy_threshold = threshold
    /\ dedup_pc = "called"
    /\ paper_no = 0
    /\ groups = <<>>
    /\ doi_map = <<>>
    /\ ext_map = <<>>
    /\ tya_map = <<>>
    /\ title_map = <<>>
    /\ pdf_map = <<>>
    /\ fuzzy_warnings = <<>>
    /\ merged = <<>>
    /\ stats = <<>>

----------------------------------------------------------------------------
(* The records tried.                                                      *)

MaxPapers == 3        \* longest list given to deduplicate_papers

\* A record as _worker builds it (lines 4784-4801), before it has an id: query
\* "q1" belongs to section "s1" and every other query to section "s2".
Raw(doi, title, year, authors, pdf_url, pdf_source, ext, citations, abstract, query) ==
    [doi |-> doi, title |-> title, year |-> year, authors |-> authors,
     pdf_url |-> pdf_url, pdf_source |-> pdf_source, external_ids |-> ext,
     citations |-> citations, abstract |-> abstract, query |-> query,
     section |-> IF query = "q1" THEN "s1" ELSE "s2",
     all_queries |-> <<>>, all_sections |-> <<>>, duplicate_paper_ids |-> <<>>]

\* Records without a PDF, external ids or a year: every DOI (none, one written in
\* two ways, another one) with either title.
PlainPapers ==
    {Raw(doi, title, "N/A", "Unknown", NoValue, "None", <<>>, 0, "No abstract.", "q1") :
        doi   \in {NoValue, "10.1/ABC", "https://doi.org/10.1/abc", "10.1/xyz"},
        title \in {"Graph Neural Network", "Quantum Computing"}}

\* Records with one title, year and first author.
DatedPapers ==
    {Raw(doi, "Graph Neural Network", "2020", "Smith, Lee", NoValue, "None", <<>>, 0,
         "No abstract.", "q1") :
        doi \in {NoValue, "10.1/ABC", "10.1/xyz"}}

\* Records with a PDF or an external id, found by another query.
RichPapers ==
    { Raw("10.1/ABC", "Quantum Computing", "N/A", "Unknown",
          "https://X.org/a.pdf", "OpenAlex", <<"S2:1">>, 5, "A.", "q2"),
      Raw("10.1/xyz", "Graph Neural Network", "2019", "Smith, Lee",
          "https://x.org/a.pdf/", "Elsevier", <<"s2:1">>, 0, "No abstract.", "q2"),
      Raw(NoValue, "Graph Neural Network", "N/A", "Unknown",
          "https://x.org/a.pdf", "OpenAlex", <<>>, 0, "No abstract.", "q2") }

RawPapers == PlainPapers \cup DatedPapers \cup RichPapers

\* paper_id is a fresh uuid per record (line 4785): here the record's number.
WithIds(raw) == [i \in DOMAIN raw |-> raw[i] @@ [paper_id |-> i]]

PaperLists == {WithIds(raw) : raw \in UNION {[1..n -> RawPapers] : n \in 0..MaxPapers}}

DedupInit ==
    /\ NoSearch
    /\ \E ps \in PaperLists : Called(ps, 95)

DedupSpec == DedupInit /\ [][DedupNext]_vars

\* The records that carry every kind of key: the ones with a PDF or an external id,
\* the dated ones, and the plain ones with no DOI or the first DOI.
IndexPapers ==
    RichPapers \cup DatedPapers
               \cup {p \in PlainPapers : p.doi \in {NoValue, "10.1/ABC"}}

IndexLists == {WithIds(raw) : raw \in UNION {[1..n -> IndexPapers] : n \in 0..MaxPapers}}

IndexInit ==
    /\ NoSearch
    /\ \E ps \in IndexLists : Called(ps, 95)

IndexSpec == IndexInit /\ [][DedupNext]_vars

\* Records with similar titles and no other key in common: "Graph Neural Netwerk"
\* is at ratio 38/40 = 0.95 of "Graph Neural Network", "Graph Neural Netwerks" at
\* 38/41 of it and at 40/41 of the former.
FuzzyPapers ==
    {Raw(doi, title, "N/A", "Unknown", NoValue, "None", <<>>, 0, "No abstract.", "q1") :
        doi   \in {NoValue, "10.1/ABC"},
        title \in {"Graph Neural Network", "Graph Neural Netwerk",
                   "Graph Neural Netwerks", "Quantum Computing"}}

FuzzyLists == {WithIds(raw) : raw \in UNION {[1..n -> FuzzyPapers] : n \in 0..MaxPapers}}

\* The thresholds tried, in hundredths: the default and a lower one.
Thresholds == {90, 95}

FuzzyInit ==
    /\ NoSearch
    /\ \E ps \in FuzzyLists, threshold \in Thresholds : Called(ps, threshold)

FuzzySpec == FuzzyInit /\ [][DedupNext]_vars

\* Records with three similar titles and no DOI or one of two DOIs.
GuardPapers ==
    {Raw(doi, title, "N/A", "Unknown", NoValue, "None", <<>>, 0, "No abstract.", "q1") :
        doi   \in {NoValue, "10.1/ABC", "10.1/xyz"},
        title \in {"Graph Neural Network", "Graph Neural Netwerk", "Graph Neural Netwerks"}}

GuardLists == {WithIds(raw) : raw \in UNION {[1..n -> GuardPapers] : n \in 0..MaxPapers}}

GuardInit ==
    /\ NoSearch
    /\ \E ps \in GuardLists : Called(ps, 95)

GuardSpec == GuardInit /\ [][DedupNext]_vars

\* One DOI as providers and users write it: bare, with the resolver prefix, with
\* the "doi:" prefix, in capitals, and with a full stop after it.
DoiForms ==
    { "10.1/abc", "https://doi.org/10.1/ABC", "HTTPS://DOI.ORG/10.1/abc",
      "doi:10.1/abc", "DOI:10.1/ABC", "10.1/abc." }

\* Records with that DOI, in each form, and either title.
DoiPapers ==
    {Raw(doi, title, "N/A", "Unknown", NoValue, "None", <<>>, 0, "No abstract.", "q1") :
        doi \in DoiForms, title \in {"Graph Neural Network", "Quantum Computing"}}

DoiLists == {WithIds(raw) : raw \in UNION {[1..n -> DoiPapers] : n \in 0..MaxPapers}}

DoiInit ==
    /\ NoSearch
    /\ \E ps \in DoiLists : Called(ps, 95)

DoiSpec == DoiInit /\ [][DedupNext]_vars

----------------------------------------------------------------------------
(* The call site of the main flow (lines 6356-6358): the canonical records *)
(* are split again into found and missing.                                 *)

\* bool(p.get("pdf_url"))
HasUrl(p) == Truthy(p.pdf_url)

LacksUrl(p) == ~HasUrl(p)

\* Lines 6357-6358.
Route ==
    /\ dedup_pc = "returned"
    /\ found' = SelectSeq(merged, HasUrl)
    /\ missing' = SelectSeq(merged, LacksUrl)
    /\ dedup_pc' = "routed"
    /\ UNCHANGED <<inputs, now, pc, status, started_at, late, calls, response, pending,
                   wait_deadline, completed, timed_out, progress>>
    /\ UNCHANGED <<papers, fuzzy_threshold, paper_no, groups, doi_map, ext_map, tya_map,
                   title_map, pdf_map, fuzzy_warnings, merged, stats>>

FlowNext == DedupNext \/ Route

\* What a record can say about its PDF: nothing (lines 4826, 4829), one of two
\* open-access URLs of the provider (line 4816), the fallback's URL (lines
\* 4822-4823) and the URL of a preprint (line 5185).
PdfKinds ==
    { <<NoValue, "None">>,
      <<"https://x.org/a.pdf", "OpenAlex">>,
      <<"https://y.org/c.pdf", "OpenAlex">>,
      <<"https://e.org/b.pdf", "Elsevier">>,
      <<"https://arxiv.org/pdf/1", "arXiv">> }

\* Records with one title: with no DOI or with a DOI and any kind of PDF, and with
\* another DOI and no PDF or the first one.
PdfPapers ==
    {Raw(doi, "Graph Neural Network", "N/A", "Unknown", pdf[1], pdf[2], <<>>, 0,
         "No abstract.", "q1") :
        doi \in {NoValue, "10.1/abc"}, pdf \in PdfKinds}
    \cup
    {Raw("10.1/xyz", "Graph Neural Network", "N/A", "Unknown", pdf[1], pdf[2], <<>>, 0,
         "No abstract.", "q1") :
        pdf \in {<<NoValue, "None">>, <<"https://x.org/a.pdf", "OpenAlex">>}}

PdfLists == {WithIds(raw) : raw \in UNION {[1..n -> PdfPapers] : n \in 0..MaxPapers}}

PdfInit ==
    /\ NoSearch
    /\ \E ps \in PdfLists : Called(ps, 95)

PdfSpec == PdfInit /\ [][FlowNext]_vars

----------------------------------------------------------------------------
(* Properties of deduplicate_papers.                                       *)

\* The papers the main loop has put into clusters, and the cluster of each.
Taken == 1..paper_no
GroupOf(i) == CHOOSE g \in DOMAIN groups : i \in Range(groups[g].papers)

DoiNorm(i) == _normalize_doi(papers[i].doi)
TitleNorm(i) == _normalize_title(papers[i].title)

\* C14: at every point of the clustering, whatever the order of the list, two
\* records whose DOIs normalise to the same doi_norm are members of the same
\* cluster, whatever their other fields are.
C14_SameDoiSameCluster ==
    \A i, j \in Taken :
        (DoiNorm(i) # NoValue /\ DoiNorm(i) = DoiNorm(j)) => GroupOf(i) = GroupOf(j)

\* Two records whose DOIs differ as written (in case and by the resolver prefix)
\* and whose titles differ are in one cluster, although the title of the later one
\* is the title of another cluster that was there before it came.
C14_Witness ==
    /\ dedup_pc = "returned"
    /\ \E i, j, k \in Taken :
          /\ i < j /\ k < j
          /\ papers[i].doi # papers[j].doi
          /\ DoiNorm(i) = DoiNorm(j) /\ DoiNorm(i) # NoValue
          /\ TitleNorm(i) # TitleNorm(j)
          /\ TitleNorm(k) = TitleNorm(j)
          /\ GroupOf(i) = GroupOf(j)
          /\ GroupOf(k) # GroupOf(j)

\* C15: two records that have the same title_norm but distinct, present normalised
\* DOIs are never members of the same cluster, also when they share the year and
\* the first author.
C15_DoiConflictKeepsApart ==
    \A i, j \in Taken :
        (/\ TitleNorm(i) # NoValue /\ TitleNorm(i) = TitleNorm(j)
         /\ DoiNorm(i) # NoValue /\ DoiNorm(j) # NoValue
         /\ DoiNorm(i) # DoiNorm(j))
        => GroupOf(i) # GroupOf(j)

\* The list ps in another order.
Shuffled(ps, order) == [i \in DOMAIN ps |-> ps[order[i]]]

\* The clusters of ps, each as the set of the ids of its members.
Partition(ps, threshold) ==
    LET gs == Clustered(ps, Len(ps), threshold).groups
    IN  {{ps[i].paper_id : i \in Range(gs[g].papers)} : g \in DOMAIN gs}

\* What a canonical record says about the paper: its fields other than its id and
\* its provenance.
Content(m) ==
    [doi |-> m.doi, title |-> m.title, authors |-> m.authors, year |-> m.year,
     citations |-> m.citations, abstract |-> m.abstract,
     pdf_url |-> m.pdf_url, pdf_source |-> m.pdf_source]

Contents(ms) == {Content(ms[i]) : i \in DOMAIN ms}

\* C16: for every list of records and every permutation of it, deduplicate_papers
\* yields the same partition of the records into clusters and the same canonical
\* DOI, title and other field values per cluster.
C16_OrderInvariant ==
    dedup_pc = "returned" =>
        \A order \in Orders(DOMAIN papers) :
            LET ps == Shuffled(papers, order)
            IN  /\ Partition(ps, fuzzy_threshold) = Partition(papers, fuzzy_threshold)
                /\ Contents(deduplicate_papers(ps, fuzzy_threshold)[1]) = Contents(merged)

\* C17: running deduplicate_papers on the list it returned is an identity: every
\* cluster of the second run is a singleton and every record comes out identical,
\* field by field, provenance included.
C17_Idempotent ==
    dedup_pc = "returned" =>
        LET again == deduplicate_papers(merged, fuzzy_threshold)
        IN  /\ again[2].groups = Len(merged)
            /\ again[1] = merged

\* The first two records of the list have titles, match on no exact key (DOI,
\* external id, composite key, normalised title, PDF URL) and have no DOI conflict.
FuzzyPair ==
    LET k1 == Keys(papers[1])
        k2 == Keys(papers[2])
    IN  /\ k1.title # NoValue /\ k2.title # NoValue /\ k1.title # k2.title
        /\ k1.doi = NoValue \/ k2.doi = NoValue
        /\ Range(k1.ext_ids) \cap Range(k2.ext_ids) = {}
        /\ k1.tya = NoValue \/ k1.tya # k2.tya
        /\ k1.pdf = NoValue \/ k1.pdf # k2.pdf

PairRatio == SequenceMatcherRatio(TitleNorm(2), TitleNorm(1))

\* C18: of two such records the second joins the cluster of the first if and only
\* if the similarity ratio of their normalised titles is equal to or greater than
\* the threshold.
C18_FuzzyBoundary ==
    (paper_no >= 2 /\ FuzzyPair) =>
        (GroupOf(2) = GroupOf(1) <=> 100 * PairRatio[1] >= fuzzy_threshold * PairRatio[2])

\* Two titles at exactly the default threshold were merged, with a warning.
C18_Witness ==
    /\ dedup_pc = "returned"
    /\ Len(papers) >= 2
    /\ FuzzyPair
    /\ fuzzy_threshold = 95
    /\ 100 * PairRatio[1] = 95 * PairRatio[2]
    /\ GroupOf(2) = GroupOf(1)
    /\ fuzzy_warnings # <<>>

\* The number of members of the first n clusters.
RECURSIVE SizeSum(_)
SizeSum(n) == IF n = 0 THEN 0 ELSE SizeSum(n - 1) + Len(groups[n].papers)

\* C19: every record the loop has taken is a member of exactly one cluster, once,
\* and no cluster is empty; when the call returns there is one canonical record per
\* cluster, made from that cluster, and the statistics say so: input = number of
\* records = sum of the cluster sizes, groups = output = length of the returned
\* list, and 1 <= output <= input unless the list is empty.
C19_OneClusterEach ==
    /\ \A i \in Taken :
          Cardinality({gk \in (DOMAIN groups) \X (DOMAIN papers) :
                          /\ gk[2] <= Len(groups[gk[1]].papers)
                          /\ groups[gk[1]].papers[gk[2]] = i}) = 1
    /\ \A g \in DOMAIN groups :
          groups[g].papers # <<>> /\ Range(groups[g].papers) \subseteq Taken
    /\ dedup_pc = "returned" =>
          /\ stats.input = Len(papers)
          /\ stats.input = SizeSum(Len(groups))
          /\ stats.groups = Len(groups)
          /\ stats.output = stats.groups
          /\ stats.output = Len(merged)
          /\ \A g \in DOMAIN merged :
                merged[g].paper_id \in {papers[i].paper_id : i \in Range(groups[g].papers)}
          /\ papers # <<>> => (1 <= stats.output /\ stats.output <= stats.input)

\* A call with three records returned two canonical records.
C19_Witness ==
    /\ dedup_pc = "returned"
    /\ stats.input = 3
    /\ stats.output = 2
    /\ \E g \in DOMAIN groups : Len(groups[g].papers) = 2

\* The normalised DOIs of the members of cluster g.
MemberDois(g) == {DoiNorm(i) : i \in Range(groups[g].papers)} \ {NoValue}

\* The base of cluster g: the member _merge_paper_group copies.
BaseOf(g) == Best([i \in DOMAIN groups[g].papers |-> papers[groups[g].papers[i]]])

\* C20: once deduplicate_papers has returned, the doi of the canonical record
\* of a cluster with at least one member DOI is one of the members' normalised
\* DOIs and no member's normalised DOI is lexicographically smaller, whichever
\* member is the base; the canonical record has no DOI only if no member of
\* its cluster has one.
C20_SmallestDoi ==
    dedup_pc = "returned" =>
        \A g \in DOMAIN merged :
            /\ MemberDois(g) # {} =>
                  /\ merged[g].doi \in MemberDois(g)
                  /\ \A d \in MemberDois(g) : ~StrLess(d, merged[g].doi)
            /\ _normalize_doi(merged[g].doi) = NoValue => MemberDois(g) = {}

\* A cluster with two different member DOIs whose base carries the larger one.
C20_Witness ==
    /\ dedup_pc = "returned"
    /\ \E g \in DOMAIN merged :
          /\ Cardinality(MemberDois(g)) = 2
          /\ _normalize_doi(BaseOf(g).doi) = "10.1/xyz"
          /\ merged[g].doi = "10.1/abc"

----------------------------------------------------------------------------
(* Properties of the merged PDF and of the routing that follows.           *)

\* The members of cluster g, as records.
MembersOf(g) == {papers[i] : i \in Range(groups[g].papers)}

\* C21: after the routing of lines 6357-6358, a canonical record is in found iff
\* its merged pdf_source is not "None", and in missing otherwise: every canonical
\* record has a PDF URL exactly when its pdf_source is not "None", and found and
\* missing are the canonical records with and without one, in order.
C21_RoutedBySource ==
    dedup_pc = "routed" =>
        /\ \A g \in DOMAIN merged :
              Truthy(merged[g].pdf_url) <=> merged[g].pdf_source \notin {"None", NoValue, ""}
        /\ found = SelectSeq(merged, LAMBDA p : p.pdf_source # "None")
        /\ missing = SelectSeq(merged, LAMBDA p : p.pdf_source = "None")
        /\ Len(found) + Len(missing) = Len(merged)

\* A cluster whose base has no PDF takes the PDF of another member and is routed
\* to found, next to a canonical record that is routed to missing.
C21_Witness ==
    /\ dedup_pc = "routed"
    /\ found # <<>>
    /\ missing # <<>>
    /\ \E g \in DOMAIN merged :
          /\ ~Truthy(BaseOf(g).pdf_url)
          /\ merged[g].pdf_source = "Elsevier"
          /\ merged[g] \in Range(found)

\* The rank of the PDF of a record: Primary > Fallback > any other source with a
\* URL > no URL.
Rank(p) == _pdf_source_rank(p)

\* C22: the pdf_url and pdf_source of every canonical record are those of one
\* member of its cluster, a member whose rank is the greatest of the cluster, and
\* they are the base's own whenever the base already has the greatest rank.
C22_PdfOfTopRanked ==
    dedup_pc \in {"returned", "routed"} =>
        \A g \in DOMAIN merged :
            /\ \E m \in MembersOf(g) :
                  /\ merged[g].pdf_url = m.pdf_url
                  /\ merged[g].pdf_source = m.pdf_source
                  /\ \A x \in MembersOf(g) : Rank(x) <= Rank(m)
            /\ (\A x \in MembersOf(g) : Rank(x) <= Rank(BaseOf(g))) =>
                  /\ merged[g].pdf_url = BaseOf(g).pdf_url
                  /\ merged[g].pdf_source = BaseOf(g).pdf_source

\* A cluster whose base is a Fallback record and which holds two Primary records
\* with different URLs: the canonical record has the URL and the source of one of
\* the two.
C22_Witness ==
    /\ dedup_pc = "returned"
    /\ \E g \in DOMAIN merged :
          /\ Rank(BaseOf(g)) = 2
          /\ \E x, y \in MembersOf(g) : Rank(x) = 3 /\ Rank(y) = 3 /\ x.pdf_url # y.pdf_url
          /\ merged[g].pdf_source = "OpenAlex"
          /\ merged[g].pdf_url # BaseOf(g).pdf_url

----------------------------------------------------------------------------
(* Properties of the provenance of a canonical record.                     *)

\* The members of cluster g in the order they joined it.
MemberSeq(g) == [i \in DOMAIN groups[g].papers |-> papers[groups[g].papers[i]]]

\* The place of the first member of cluster g whose field f is v.
FirstWith(g, f, v) ==
    CHOOSE i \in DOMAIN MemberSeq(g) :
        /\ MemberSeq(g)[i][f] = v
        /\ \A j \in 1..i - 1 : MemberSeq(g)[j][f] # v

\* list is the deduplicated union, in first-seen member order, of field f of the
\* members of cluster g.
IsUnionOf(list, g, f) ==
    /\ Range(list) = {m[f] : m \in MembersOf(g)}
    /\ \A i, j \in DOMAIN list :
          i < j => FirstWith(g, f, list[i]) < FirstWith(g, f, list[j])

\* C23: for every cluster, all_queries and all_sections of the canonical record
\* are the deduplicated unions, in first-seen member order, of the query and the
\* section of every member, and duplicate_paper_ids holds exactly the ids of the
\* members other than the base, each once: cluster size minus one ids, never the
\* id of the base, which is the canonical record's own.
C23_Provenance ==
    dedup_pc = "returned" =>
        \A g \in DOMAIN merged :
            /\ IsUnionOf(merged[g].all_queries, g, "query")
            /\ IsUnionOf(merged[g].all_sections, g, "section")
            /\ merged[g].paper_id = BaseOf(g).paper_id
            /\ Range(merged[g].duplicate_paper_ids)
                  = {m.paper_id : m \in MembersOf(g)} \ {BaseOf(g).paper_id}
            /\ Len(merged[g].duplicate_paper_ids) = Len(groups[g].papers) - 1

\* A cluster of three found by two queries, the second member being the base.
C23_Witness ==
    /\ dedup_pc = "returned"
    /\ \E g \in DOMAIN merged :
          /\ merged[g].all_queries = <<"q1", "q2">>
          /\ merged[g].all_sections = <<"s1", "s2">>
          /\ merged[g].duplicate_paper_ids = <<1, 3>>
          /\ papers[3].query = "q1"

----------------------------------------------------------------------------
(* Properties of one round of the main loop.                               *)

\* The paper the next round takes, and its keys.
Incoming == paper_no + 1
InKeys == Keys(papers[Incoming])

\* The external ids of the incoming paper that ext_map knows, in order.
InKnown == KnownExt(ext_map, InKeys.ext_ids)

\* The cluster of the highest-priority key of the incoming paper that is indexed:
\* DOI, then external id, then composite key, then exact title (which counts only
\* without a DOI conflict); 0 if none is.
ByPriority ==
    IF InKeys.doi # NoValue /\ InKeys.doi \in DOMAIN doi_map THEN doi_map[InKeys.doi]
    ELSE IF InKnown # <<>> THEN ext_map[InKnown[1]]
    ELSE IF InKeys.tya # NoValue /\ InKeys.tya \in DOMAIN tya_map THEN tya_map[InKeys.tya]
    ELSE IF /\ InKeys.title # NoValue /\ InKeys.title \in DOMAIN title_map
            /\ ~_doi_conflict(groups[title_map[InKeys.title]], InKeys.doi)
         THEN title_map[InKeys.title]
    ELSE 0

\* Every entry of the index m is the same in m_.
Kept(m, m_) == \A key \in DOMAIN m : key \in DOMAIN m_ /\ m_[key] = m[key]

\* C24: in every round of the main loop the incoming record joins the cluster of
\* its highest-priority indexed key and no other cluster, also when another of
\* its keys is indexed to a different cluster; every cluster that existed keeps
\* its members in place (no two clusters are merged, no member moves), and every
\* index entry still points at the cluster it pointed at.
C24_NoRetroactiveMerge ==
    [][(dedup_pc = "loop" /\ paper_no' = paper_no + 1) =>
          /\ ByPriority # 0 =>
                groups'[ByPriority].papers = Append(groups[ByPriority].papers, Incoming)
          /\ Len(groups') >= Len(groups)
          /\ \A g \in DOMAIN groups :
                g # ByPriority /\ ByPriority # 0 => groups'[g].papers = groups[g].papers
          /\ \A g \in DOMAIN groups :
                groups'[g].papers \in {groups[g].papers, Append(groups[g].papers, Incoming)}
          /\ Kept(doi_map, doi_map') /\ Kept(ext_map, ext_map') /\ Kept(tya_map, tya_map')
          /\ Kept(title_map, title_map') /\ Kept(pdf_map, pdf_map')]_vars

\* The third record has the DOI of the first cluster and the title of the second:
\* it has joined the first, the clusters are still two, and its title still
\* points at the second.
C24_Witness ==
    /\ dedup_pc = "loop"
    /\ paper_no = 3
    /\ Len(groups) = 2
    /\ groups[1].papers = <<1, 3>>
    /\ groups[2].papers = <<2>>
    /\ DoiNorm(3) # NoValue /\ doi_map[DoiNorm(3)] = 1
    /\ DoiNorm(1) = DoiNorm(3)
    /\ TitleNorm(3) = TitleNorm(2) /\ TitleNorm(3) # TitleNorm(1)
    /\ title_map[TitleNorm(3)] = 2

\* The incoming paper reaches the fuzzy step: it has a title and none of its exact
\* keys gave a cluster.
AtFuzzyStep ==
    /\ dedup_pc = "loop" /\ paper_no' = paper_no + 1
    /\ InKeys.title # NoValue
    /\ ByPriority = 0

\* The similarity of the incoming title to the title of cluster g, as a fraction.
RatioTo(g) == SequenceMatcherRatio(InKeys.title, groups[g].title_norm)

Titled == {g \in DOMAIN groups : groups[g].title_norm # NoValue}

\* The clusters the fuzzy step may choose: those with a title and without a DOI
\* conflict with the incoming paper.
Admissible == {g \in Titled : ~_doi_conflict(groups[g], InKeys.doi)}

\* The incoming paper has joined cluster g.
Joins(g) == groups'[g].papers = Append(groups[g].papers, Incoming)

\* The incoming paper has started a new cluster.
StartsNew == Len(groups') = Len(groups) + 1 /\ groups'[Len(groups')].papers = <<Incoming>>

InPdfIndex == InKeys.pdf # NoValue /\ InKeys.pdf \in DOMAIN pdf_map

\* C25 as stated: if the cluster whose title is most similar to the incoming one,
\* among all clusters, has a DOI conflict with the incoming paper, the fuzzy step
\* attaches the paper to no cluster.
C25_TopConflictBlocks ==
    [][AtFuzzyStep =>
          \A g \in Titled :
              (/\ \A h \in Titled \ {g} : RatioGreater(RatioTo(g), RatioTo(h))
               /\ _doi_conflict(groups[g], InKeys.doi)
               /\ ~InPdfIndex)
              => StartsNew]_vars

\* C25 as the code has it: clusters that have a DOI conflict with the incoming
\* paper are passed over, and the candidate is the first cluster of the greatest
\* ratio among the others; the paper joins it if that ratio reaches the threshold,
\* whatever the ratio of a conflicting cluster, and otherwise joins no cluster by
\* its title.
C25_BestAdmissible ==
    [][AtFuzzyStep =>
          /\ \A g \in Admissible :
                (/\ \A h \in Admissible : ~RatioGreater(RatioTo(h), RatioTo(g))
                 /\ \A h \in Admissible : h < g => RatioGreater(RatioTo(g), RatioTo(h))
                 /\ RatioAtLeast(RatioTo(g), fuzzy_threshold))
                => Joins(g)
          /\ ((\A g \in Admissible : ~RatioAtLeast(RatioTo(g), fuzzy_threshold))
               /\ ~InPdfIndex)
                => StartsNew]_vars

\* The third record has joined the cluster of the second, whose title is less
\* similar to its own than the title of the first, with which it has a DOI conflict.
C25_Witness ==
    /\ dedup_pc = "loop"
    /\ paper_no = 3
    /\ groups[1].papers = <<1>>
    /\ groups[2].papers = <<2, 3>>
    /\ DoiNorm(3) # NoValue /\ DoiNorm(1) # NoValue /\ DoiNorm(1) # DoiNorm(3)
    /\ DoiNorm(2) = NoValue
    /\ TitleNorm(3) \notin {TitleNorm(1), TitleNorm(2)}
    /\ RatioGreater(SequenceMatcherRatio(TitleNorm(3), TitleNorm(1)),
                    SequenceMatcherRatio(TitleNorm(3), TitleNorm(2)))

\* The incoming paper matches no cluster by DOI, external id, composite key, exact
\* title or fuzzy title.
NoKeyMatch ==
    /\ dedup_pc = "loop" /\ paper_no' = paper_no + 1
    /\ ByPriority = 0
    /\ \/ InKeys.title = NoValue
       \/ \A g \in Admissible : ~RatioAtLeast(RatioTo(g), fuzzy_threshold)

\* C26 as stated: a record that matches no cluster by DOI, external id, composite
\* key, exact title or fuzzy title starts a new singleton cluster, whatever its PDF
\* URL is.
C26_UnmatchedStartsNew == [][NoKeyMatch => StartsNew]_vars

\* C26 as the code has it: such a record joins the cluster its normalised PDF URL
\* is indexed to, unless it has a DOI conflict with that cluster, and starts a new
\* singleton cluster only otherwise.
C26_PdfUrlIsLastKey ==
    [][NoKeyMatch =>
          IF InPdfIndex /\ ~_doi_conflict(groups[pdf_map[InKeys.pdf]], InKeys.doi)
          THEN Joins(pdf_map[InKeys.pdf]) /\ Len(groups') = Len(groups)
          ELSE StartsNew]_vars

\* The second record shares nothing with the first but the PDF URL, written in
\* another way, and has joined its cluster.
C26_Witness ==
    /\ dedup_pc = "loop"
    /\ paper_no = 2
    /\ groups[1].papers = <<1, 2>>
    /\ DoiNorm(2) = NoValue
    /\ TitleNorm(1) # TitleNorm(2)
    /\ ~RatioAtLeast(SequenceMatcherRatio(TitleNorm(2), TitleNorm(1)), fuzzy_threshold)
    /\ Keys(papers[2]).ext_ids = <<>>
    /\ Keys(papers[2]).tya = NoValue
    /\ papers[1].pdf_url # papers[2].pdf_url
    /\ Keys(papers[1]).pdf = Keys(papers[2]).pdf

\* The first paper taken whose key, as key_of gives it, is key.
FirstWriter(key_of(_), key) ==
    CHOOSE i \in Taken : key_of(i) = key /\ \A j \in 1..i - 1 : key_of(j) # key

\* The index m holds exactly the keys of the papers taken, each pointing at the
\* cluster of the first paper that carried it.
FirstWriterWins(m, key_of(_)) ==
    /\ DOMAIN m = {key_of(i) : i \in Taken} \ {NoValue}
    /\ \A key \in DOMAIN m : m[key] = GroupOf(FirstWriter(key_of, key))

TyaKey(i) == Keys(papers[i]).tya
PdfKey(i) == Keys(papers[i]).pdf

\* The external ids of the papers taken, and the first paper that carried one.
ExtIds(i) == Range(Keys(papers[i]).ext_ids)

FirstWithExt(e) == CHOOSE i \in Taken : e \in ExtIds(i) /\ \A j \in 1..i - 1 : e \notin ExtIds(j)

\* C27: every index maps each key to the cluster of the first record that carried
\* it, and no step changes an entry once it is written; the DOI set of a cluster is
\* the set of the doi_norms of all its members and only grows.
C27_FirstWriterWins ==
    /\ [](/\ FirstWriterWins(doi_map, DoiNorm)
          /\ FirstWriterWins(tya_map, TyaKey)
          /\ FirstWriterWins(title_map, TitleNorm)
          /\ FirstWriterWins(pdf_map, PdfKey)
          /\ DOMAIN ext_map = UNION {ExtIds(i) : i \in Taken}
          /\ \A e \in DOMAIN ext_map : ext_map[e] = GroupOf(FirstWithExt(e))
          /\ \A g \in DOMAIN groups : groups[g].doi_norms = MemberDois(g))
    /\ [][/\ Kept(doi_map, doi_map') /\ Kept(ext_map, ext_map') /\ Kept(tya_map, tya_map')
          /\ Kept(title_map, title_map') /\ Kept(pdf_map, pdf_map')
          /\ \A g \in DOMAIN groups : groups[g].doi_norms \subseteq groups'[g].doi_norms]_vars

\* The third record shares an external id with the first and the title with the
\* second: it has joined the first, whose DOI set now has its DOI too, and its title
\* still points at the second.
C27_Witness ==
    /\ dedup_pc = "loop"
    /\ paper_no = 3
    /\ GroupOf(1) = 1 /\ GroupOf(2) = 2 /\ GroupOf(3) = 1
    /\ TitleNorm(3) = TitleNorm(2)
    /\ title_map[TitleNorm(3)] = 2
    /\ groups[1].doi_norms = {DoiNorm(1), DoiNorm(3)}
    /\ DoiNorm(1) # DoiNorm(3) /\ NoValue \notin {DoiNorm(1), DoiNorm(3)}
    /\ doi_map[DoiNorm(3)] = 1

----------------------------------------------------------------------------
(* Properties of the DOI key.                                              *)

\* C28: two records whose DOIs are two forms of one DOI, differing only by the
\* "https://doi.org/" or "doi:" prefix, by punctuation around it or by letter case,
\* have the same doi_norm and are members of the same cluster.
C28_DoiFormsAgree ==
    \A i, j \in Taken :
        (papers[i].doi \in DoiForms /\ papers[j].doi \in DoiForms)
        => (DoiNorm(i) = DoiNorm(j) /\ GroupOf(i) = GroupOf(j))

----------------------------------------------------------------------------
(* No PDF is lost.                                                         *)

\* C29: whichever member is the base, the canonical record of a cluster has a PDF
\* URL if and only if some member of the cluster has one, and after the routing it
\* is in found in that case and in missing otherwise.
C29_PdfNeverLost ==
    /\ dedup_pc \in {"returned", "routed"} =>
          \A g \in DOMAIN merged :
              HasUrl(merged[g]) <=> \E m \in MembersOf(g) : HasUrl(m)
    /\ dedup_pc = "routed" =>
          \A g \in DOMAIN merged :
              /\ merged[g] \in Range(found) <=> \E m \in MembersOf(g) : HasUrl(m)
              /\ merged[g] \in Range(missing) <=> \A m \in MembersOf(g) : ~HasUrl(m)

\* A cluster of three whose base has a DOI and no PDF and whose only PDF is the
\* preprint of its last member: the canonical record has it and is the one record
\* found.
C29_Witness ==
    /\ dedup_pc = "routed"
    /\ Len(groups) = 1
    /\ groups[1].papers = <<1, 2, 3>>
    /\ BaseOf(1).paper_id = 1
    /\ ~HasUrl(papers[1]) /\ ~HasUrl(papers[2])
    /\ papers[3].pdf_source = "arXiv"
    /\ found = <<merged[1]>>
    /\ merged[1].pdf_url = papers[3].pdf_url
    /\ missing = <<>>

----------------------------------------------------------------------------
(* The work items left in the queue when search_api returns.               *)

Cancelled == {t \in TaskIds : status[t] = "cancelled"}

\* No task that is not executing begins to execute in this step.
NoneStarts == \A t \in TaskIds : status[t] # "running" => status'[t] # "running"

\* C30 as stated: once search_api has returned, no task is left in the queue and
\* no task that had not started begins its provider search.
C30_QueuedAlwaysCancelled ==
    /\ [](pc = "returned" => Queued = {})
    /\ [][pc = "returned" => NoneStarts]_vars

\* C30 as the code has it: where the interpreter's shutdown() accepts
\* cancel_futures, every task still queued when search_api returns is cancelled
\* and none starts afterwards; where it does not (the TypeError fallback), no task
\* is cancelled and the queued ones stay in the queue of the pool.  A task that is
\* executing is never cancelled.
C30_CancelledWhereSupported ==
    /\ [](pc = "returned" => IF cancel_futures THEN Queued = {} ELSE Cancelled = {})
    /\ [][(pc = "returned" /\ cancel_futures) => NoneStarts]_vars
    /\ [][\A t \in TaskIds : status[t] = "running" => status'[t] \in {"running", "done"}]_vars

\* search_api has returned on timeout: one task was cancelled in the queue, and a
\* task that was executing at that moment has finished since, uncollected.
C30_Witness ==
    /\ pc = "returned"
    /\ cancel_futures
    /\ timed_out
    /\ Cancelled # {}
    /\ \E t \in pending : status[t] = "done" /\ late[t]

====
